---- MODULE Spec2Model ----
(***************************************************************************)
(* State-machine model of the Arbisense decision pipeline:                 *)
(*   - the risk gate   (backend/app/engines/circuit_breaker.py)            *)
(*   - the scan engine (backend/app/engines/arbitrage_engine.py)           *)
(* Time is in clock ticks.  The risk gate counts money in whole dollars.   *)
(* A quote of the scan engine is written in thousandths (480 is the price  *)
(* 0.48) and a setting of its configuration in the unit named where it is  *)
(* defined; the engine turns both into the floats Python holds and         *)
(* computes on them as Python does, rounding after every operation.        *)
(***************************************************************************)
EXTENDS Integers, Sequences, FiniteSets, TLC

VARIABLES
    \* ---- CircuitBreaker fields (circuit_breaker.py:56-62)
    state, positions, daily_metrics, trip_time, error_count,
    breaker_config,     \* CircuitBreaker.config
    \* ---- the environment of the breaker: the clock and the calendar
    now, today,
    \* ---- observation of the breaker's callers
    last,       \* the most recent call on the breaker and what it returned
    phase,      \* round-trip observer, see RoundTrip below
    streak,     \* failures reported back to back since the live counter was 0
    attempts,   \* concurrent trade attempts: validate, execute, commit
    \* ---- ArbitrageEngine fields (arbitrage_engine.py:165-195)
    config, polymarket_prices, limitless_prices, asset_mappings,
    opportunities, signals, alerts, total_opportunities_found,
    _opportunity_counter, _signal_counter, _alert_counter,
    \* ---- observation of the engine's callers
    emitted,    \* callbacks invoked by the most recent engine call
    since_scan, \* whether the cache was written since the last scan
    \* ---- the engine's scan loop (arbitrage_engine.py:191-193, 197-224)
    _running, _scan_task,
    tasks,      \* every scan-loop task ever created, by its position
    tick,       \* per task, the scan it is suspended in a callback of
    \* ---- WebSocketManager (websocket_manager.py:52-71)
    ws_running,         \* WebSocketManager._running
    source_connections, message_handlers, client_connections,
    _tasks, _broadcast_queue,
    conns,      \* every ConnectionInfo object ever created
    loops,      \* every _connect_with_retry task ever created
    transports, \* every transport websockets.connect ever returned
    workers,    \* every _broadcast_worker task ever created, and every
                \* direct call of broadcast_to_clients
    delivered,  \* per client sink, the messages its send_json accepted
    adding,     \* per client sink, the add_client calls made and waiting
    put_count,  \* messages put on the broadcast queue so far
    inbound,    \* messages the receive loops took so far, and the latest
    _lock,      \* the remove_source_connection call that holds the lock
    stopping,   \* the stop() call in progress
    \* ---- the arguments and the result of the latest VWAP calculation
    orderbook, no_orderbook, target_size_dollars, vwap_result,
    np_round,   \* how the build rounds a numpy float64 to one decimal
    \* ---- the argument and the result of the latest strategy detector call
    detection

cbVars  == <<state, positions, daily_metrics, trip_time, error_count,
             breaker_config>>
envVars == <<now, today>>
obsVars == <<last, phase, streak>>
engVars == <<config, polymarket_prices, limitless_prices, asset_mappings,
             opportunities, signals, alerts, total_opportunities_found,
             _opportunity_counter, _signal_counter, _alert_counter>>
scanObs == <<emitted, since_scan>>
loopVars == <<_running, _scan_task, tasks, tick>>
\* what a breaker operation and what an engine operation leave alone
wsShared == <<ws_running, _tasks, _broadcast_queue, put_count>>
srcVars == <<source_connections, message_handlers, conns, loops, transports>>
bcVars == <<client_connections, workers, delivered, adding>>
callVars == <<_lock, stopping>>
wsVars == <<wsShared, srcVars, bcVars, callVars>>
l2Vars == <<orderbook, no_orderbook, target_size_dollars, vwap_result,
           np_round>>
notBreaker == <<engVars, scanObs, loopVars, wsVars, inbound, l2Vars, detection>>
notEngine == <<cbVars, obsVars, attempts, wsVars, inbound, l2Vars, detection>>
vars    == <<state, positions, daily_metrics, trip_time, error_count,
             breaker_config, now, today, last, phase, streak, attempts,
             config, polymarket_prices, limitless_prices, asset_mappings,
             opportunities, signals, alerts, total_opportunities_found,
             _opportunity_counter, _signal_counter, _alert_counter,
             emitted, since_scan, _running, _scan_task, tasks, tick,
             ws_running, source_connections, message_handlers,
             client_connections, _tasks, _broadcast_queue, conns, loops,
             transports, workers, delivered, adding, put_count, inbound,
             _lock, stopping,
             orderbook, no_orderbook, target_size_dollars, vwap_result,
             np_round, detection>>

-----------------------------------------------------------------------------
(* Bounds of the model and the configuration the breaker is built with.    *)

MaxTime == 2            \* the clock runs 1..MaxTime
MaxFailed == 3          \* cap on daily_metrics.failed_trades
MaxTrades == 1          \* cap on daily_metrics.successful_trades

\* The fields of CircuitBreakerConfig that the breaker reads, scaled down
\* (models/arbitrage.py:354-363): the configuration the breaker is
\* constructed with.  The cooldown is in whole clock ticks: with a cooldown
\* of 0 a read in the tick of the trip finds now - trip_time equal to the
\* cooldown (not elapsed) and a read one tick later finds it exceeded.
max_position_per_market == 2
max_total_position == 2
max_daily_loss_usd == 2
max_loss_per_trade_usd == 1
max_consecutive_errors == 3
error_cooldown_ms == 0

CircuitBreakerConfig ==
    [max_position_per_market |-> max_position_per_market,
     max_total_position |-> max_total_position,
     max_daily_loss_usd |-> max_daily_loss_usd,
     max_loss_per_trade_usd |-> max_loss_per_trade_usd,
     max_consecutive_errors |-> max_consecutive_errors,
     error_cooldown_ms |-> error_cooldown_ms]

MaxOpportunities == 2   \* a scan starts while _opportunity_counter is below

\* ArbitrageConfig (arbitrage_engine.py:126-151).  The staleness threshold
\* is scaled down to whole clock ticks (a snapshot written in the current
\* tick has the age of the threshold and is fresh, one written a tick
\* earlier is stale); percentages are in hundredths of a point and dollars
\* in thousandths.
stale_data_threshold_ms == 0
min_spread_pct == 50
min_profit_usd == 1000
polymarket_fee_pct == 30
limitless_fee_pct == 30
default_slippage_pct == 10
base_gas_cost_usd == 500
high_spread_threshold_pct == 200

\* The notional every detector prices (arbitrage_engine.py:353, 420) and
\* the spread change that makes a re-detection an update (:317).
detector_size_usd == 100
spread_update_delta_pct == 10

PolyMarkets == {"p1"}
Pools == {"l1"}

\* Iteration order of the polymarket_prices and asset_mappings dicts.
PolyOrder == <<"p1">>

POLY_INTERNAL == "poly_internal"
POLY_TO_LIMITLESS == "poly_to_limitless"
LIMITLESS_TO_POLY == "limitless_to_poly"

Markets == {"m1", "m2"}
Attempts == {"a1", "a2"}

CLOSED == "closed"
OPEN == "open"
HALF_OPEN == "half_open"

None == <<>>
Some(x) == <<x>>

Max(a, b) == IF a >= b THEN a ELSE b

\* Python truthiness of an Optional[int]: None and 0 are falsy.
Truthy(opt) == opt # None /\ opt[1] # 0

-----------------------------------------------------------------------------
(* The breaker as a value, so that one handler's nested calls compose.     *)

This ==
    [state |-> state, positions |-> positions, daily_metrics |-> daily_metrics,
     trip_time |-> trip_time, error_count |-> error_count,
     config |-> breaker_config]

_initialize_daily_metrics(day) ==
    [date |-> day, total_trades |-> 0, successful_trades |-> 0,
     failed_trades |-> 0, total_pnl_usd |-> 0, max_drawdown_usd |-> 0,
     consecutive_errors |-> 0, total_gas_spent_usd |-> 0]

\* _can_reset looking at the error counters only
_can_reset_ignores_loss(b) ==
    /\ b.error_count = 0
    /\ b.daily_metrics.consecutive_errors < b.config.max_consecutive_errors

_can_reset(b) ==
    /\ b.error_count = 0
    /\ b.daily_metrics.consecutive_errors < b.config.max_consecutive_errors
    /\ b.daily_metrics.total_pnl_usd > -b.config.max_daily_loss_usd

\* The count the breaker keeps on entering HALF_OPEN: half the count, and 1
\* where the half is 0.
ReducedErrorCount(n) == Max(1, n \div 2)

get_state_no_cooldown(b, t) ==
    LET b1 == IF b.state = HALF_OPEN /\ _can_reset(b)
              THEN [b EXCEPT !.state = CLOSED, !.error_count = 0,
                             !.trip_time = None]
              ELSE b
    IN  IF b1.state = OPEN /\ Truthy(b1.trip_time)
        THEN [b1 EXCEPT !.state = HALF_OPEN,
                        !.error_count = ReducedErrorCount(b1.error_count)]
        ELSE b1

\* get_state testing the cooldown first and halving to 0, so that one call
\* can go on to close the breaker
get_state_cooldown_first(b, t) ==
    LET b1 == IF /\ b.state = OPEN
                 /\ Truthy(b.trip_time)
                 /\ (t - b.trip_time[1]) > b.config.error_cooldown_ms
              THEN [b EXCEPT !.state = HALF_OPEN,
                             !.error_count = b.error_count \div 2]
              ELSE b
    IN  IF b1.state = HALF_OPEN /\ _can_reset(b1)
        THEN [b1 EXCEPT !.state = CLOSED, !.error_count = 0,
                        !.trip_time = None]
        ELSE b1

\* get_state: the breaker after the lazy transitions; it returns .state
get_state(b, t) ==
    LET b1 == IF b.state = HALF_OPEN /\ _can_reset(b)
              THEN [b EXCEPT !.state = CLOSED, !.error_count = 0,
                             !.trip_time = None]
              ELSE b
    IN  IF /\ b1.state = OPEN
           /\ Truthy(b1.trip_time)
           /\ (t - b1.trip_time[1]) > b.config.error_cooldown_ms
        THEN [b1 EXCEPT !.state = HALF_OPEN,
                        !.error_count = ReducedErrorCount(b1.error_count)]
        ELSE b1

\* can_trade: the breaker after get_state, and the answer
can_trade(b, t) ==
    LET b1 == get_state(b, t)
    IN  [b |-> b1, ret |-> b1.state \in {CLOSED, HALF_OPEN}]

\* A trip that records no time
_trip_without_time(b, t) == [b EXCEPT !.state = OPEN]

_trip(b, t) == [b EXCEPT !.state = OPEN, !.trip_time = Some(t)]

PositionSize(b, m) ==
    IF b.positions[m] # None THEN b.positions[m][1].quantity ELSE 0

RECURSIVE SumQuantity(_, _)
SumQuantity(pos, ms) ==
    IF ms = {} THEN 0
    ELSE LET m == CHOOSE x \in ms : TRUE
         IN  (IF pos[m] # None THEN pos[m][1].quantity ELSE 0)
             + SumQuantity(pos, ms \ {m})

_calculate_total_position(b) == SumQuantity(b.positions, Markets)

Reject(b, why) == [b |-> b, can_execute |-> FALSE, reason |-> why]

validate_trade_limits_first(b, t, market_id, trade_size_usd, estimated_loss_usd) ==
    LET ct == can_trade(b, t)
        b1 == ct.b
    IN  IF ~ct.ret THEN Reject(b1, "breaker")
        ELSE IF estimated_loss_usd > b.config.max_loss_per_trade_usd
        THEN Reject(b1, "per_trade_loss")
        ELSE IF b1.daily_metrics.total_pnl_usd - estimated_loss_usd
                    < -b.config.max_daily_loss_usd
        THEN Reject(_trip(b1, t), "daily_loss")
        ELSE IF PositionSize(b1, market_id) + trade_size_usd
                    > b.config.max_position_per_market
        THEN Reject(b1, "market_position")
        ELSE IF _calculate_total_position(b1) + trade_size_usd
                    > b.config.max_total_position
        THEN Reject(b1, "total_position")
        ELSE [b |-> b1, can_execute |-> TRUE, reason |-> "none"]

validate_trade_trips_on_any(b, t, market_id, trade_size_usd, estimated_loss_usd) ==
    LET ct == can_trade(b, t)
        b1 == ct.b
    IN  IF ~ct.ret THEN Reject(b1, "breaker")
        ELSE IF b1.daily_metrics.total_pnl_usd - estimated_loss_usd
                    < -b.config.max_daily_loss_usd
        THEN Reject(_trip(b1, t), "daily_loss")
        ELSE IF estimated_loss_usd > b.config.max_loss_per_trade_usd
        THEN Reject(_trip(b1, t), "per_trade_loss")
        ELSE IF PositionSize(b1, market_id) + trade_size_usd
                    > b.config.max_position_per_market
        THEN Reject(b1, "market_position")
        ELSE IF _calculate_total_position(b1) + trade_size_usd
                    > b.config.max_total_position
        THEN Reject(b1, "total_position")
        ELSE [b |-> b1, can_execute |-> TRUE, reason |-> "none"]

\* validate_trade: the breaker afterwards and the ValidationResult
validate_trade(b, t, market_id, trade_size_usd, estimated_loss_usd) ==
    LET ct == can_trade(b, t)
        b1 == ct.b
    IN  IF ~ct.ret THEN Reject(b1, "breaker")
        ELSE IF b1.daily_metrics.total_pnl_usd - estimated_loss_usd
                    < -b.config.max_daily_loss_usd
        THEN Reject(_trip(b1, t), "daily_loss")
        ELSE IF estimated_loss_usd > b.config.max_loss_per_trade_usd
        THEN Reject(b1, "per_trade_loss")
        ELSE IF PositionSize(b1, market_id) + trade_size_usd
                    > b.config.max_position_per_market
        THEN Reject(b1, "market_position")
        ELSE IF _calculate_total_position(b1) + trade_size_usd
                    > b.config.max_total_position
        THEN Reject(b1, "total_position")
        ELSE [b |-> b1, can_execute |-> TRUE, reason |-> "none"]

_handle_error_trips_at_once(b, t) ==
    _trip([b EXCEPT !.error_count = @ + 1,
                    !.daily_metrics.consecutive_errors = @ + 1,
                    !.daily_metrics.failed_trades = @ + 1], t)

_handle_error_off_by_one(b, t) ==
    LET b1 == [b EXCEPT !.error_count = @ + 1,
                        !.daily_metrics.consecutive_errors = @ + 1,
                        !.daily_metrics.failed_trades = @ + 1]
    IN  IF b1.error_count > b.config.max_consecutive_errors THEN _trip(b1, t) ELSE b1

_handle_error(b, t) ==
    LET b1 == [b EXCEPT !.error_count = @ + 1,
                        !.daily_metrics.consecutive_errors = @ + 1,
                        !.daily_metrics.failed_trades = @ + 1]
    IN  IF b1.error_count >= b.config.max_consecutive_errors THEN _trip(b1, t) ELSE b1

\* A TradeResult: success, gas_cost_usd, position (None or a Position).
Position(q, pnl) == [quantity |-> q, unrealized_pnl_usd |-> pnl]

TradeResult(ok, gas, pos) ==
    [success |-> ok, gas_cost_usd |-> gas, position |-> pos]

\* Position.quantity of a reported fill
Quantities == {1}

\* The results reported to update_position: no position, or a fill.
FillResults ==
    {TradeResult(TRUE, 0, None)}
        \cup {TradeResult(TRUE, 0, Some(Position(q, 0))) : q \in Quantities}

\* The results reported to record_success: a gas-only result, a position
\* with a small loss and one whose loss alone reaches the daily limit.
SuccessResults ==
    {TradeResult(TRUE, 1, None),
     TradeResult(TRUE, 0, Some(Position(1, -1))),
     TradeResult(TRUE, 0, Some(Position(1, -max_daily_loss_usd)))}

record_success(b, trade_result) ==
    LET b1 == [b EXCEPT !.daily_metrics.successful_trades = @ + 1,
                        !.daily_metrics.total_trades = @ + 1]
        b2 == IF trade_result.position # None
              THEN [b1 EXCEPT !.daily_metrics.total_pnl_usd =
                        @ + trade_result.position[1].unrealized_pnl_usd]
              ELSE b1
        b3 == IF trade_result.gas_cost_usd # 0
              THEN [b2 EXCEPT !.daily_metrics.total_gas_spent_usd =
                        @ + trade_result.gas_cost_usd]
              ELSE b2
    IN  [b3 EXCEPT !.error_count = 0, !.daily_metrics.consecutive_errors = 0]

update_position(b, t, market_id, result) ==
    IF ~result.success THEN _handle_error(b, t)
    ELSE LET b1 == [b EXCEPT !.error_count = 0,
                             !.daily_metrics.consecutive_errors = 0]
         IN  IF result.position # None /\ b1.positions[market_id] = None
             THEN [b1 EXCEPT !.positions[market_id] = result.position]
             ELSE b1

\* A reset that leaves the trip time in place
manual_reset_keeps_trip_time(b) ==
    [b EXCEPT !.state = CLOSED, !.error_count = 0,
              !.daily_metrics.consecutive_errors = 0]

manual_reset(b) ==
    [b EXCEPT !.state = CLOSED, !.error_count = 0, !.trip_time = None,
              !.daily_metrics.consecutive_errors = 0]

\* An emergency stop that records no time
manual_trip_without_time(b, t) == _trip_without_time(b, t)

manual_trip(b, t) == _trip(b, t)

\* The value of attribute key after update_config(**kwargs): setattr for a key
\* of kwargs, left alone otherwise
Updated(cfg, kwargs, key) ==
    IF key \in DOMAIN kwargs THEN kwargs[key] ELSE cfg[key]

\* update_config(**kwargs): the keys that name an attribute of the
\* configuration are set, the other keys are logged and ignored
update_config(b, kwargs) ==
    [b EXCEPT !.config =
        [max_position_per_market |->
            Updated(b.config, kwargs, "max_position_per_market"),
         max_total_position |->
            Updated(b.config, kwargs, "max_total_position"),
         max_daily_loss_usd |->
            Updated(b.config, kwargs, "max_daily_loss_usd"),
         max_loss_per_trade_usd |->
            Updated(b.config, kwargs, "max_loss_per_trade_usd"),
         max_consecutive_errors |->
            Updated(b.config, kwargs, "max_consecutive_errors"),
         error_cooldown_ms |->
            Updated(b.config, kwargs, "error_cooldown_ms")]]

-----------------------------------------------------------------------------
(* The scan engine as a value.  A dict is a function that maps an absent   *)
(* key to None; the opportunities dict is the set of its values, whose ids *)
(* are its keys.                                                           *)

Min(a, b) == IF a <= b THEN a ELSE b

Abs(x) == IF x < 0 THEN -x ELSE x

-----------------------------------------------------------------------------
(* The engine's prices, percentages and dollars are Python floats: IEEE    *)
(* 754 binary64, every operation rounded to nearest, ties to even.  A      *)
(* float is sign * man * 2^exp, with man a 53-bit integer written as four  *)
(* limbs of 15 bits, least significant first; zero has sign 0.  The values *)
(* of the engine are far from overflow and underflow, which are left out.  *)
(* Every operation computes the exact result as a wider limb sequence and  *)
(* rounds it once.  A value that is read more than once is a parameter of  *)
(* the operator that reads it.                                             *)

PowersOfTwo ==
    <<1, 2, 4, 8, 16, 32, 64, 128, 256, 512, 1024, 2048, 4096, 8192, 16384,
      32768>>

two_to(s) == PowersOfTwo[s + 1]

Limb == two_to(15)

limb(n, i) == IF 1 <= i /\ i <= Len(n) THEN n[i] ELSE 0

\* The number of bits of a limb.
bit_length(x) ==
    IF x < 256
    THEN IF x < 16
         THEN (IF x < 4 THEN (IF x < 2 THEN x ELSE 2)
                        ELSE (IF x < 8 THEN 3 ELSE 4))
         ELSE (IF x < 64 THEN (IF x < 32 THEN 5 ELSE 6)
                         ELSE (IF x < 128 THEN 7 ELSE 8))
    ELSE IF x < 4096
         THEN (IF x < 1024 THEN (IF x < 512 THEN 9 ELSE 10)
                           ELSE (IF x < 2048 THEN 11 ELSE 12))
         ELSE (IF x < 16384 THEN (IF x < 8192 THEN 13 ELSE 14) ELSE 15)

\* The position of the most significant limb that is not 0, 0 if none.
RECURSIVE top_limb(_, _)
top_limb(n, i) == IF i = 0 \/ n[i] # 0 THEN i ELSE top_limb(n, i - 1)

\* Limb i of n * 2^(15 * w + s), with p = 2^s and q = 2^(15 - s).
shl_limb(n, w, p, q, i) ==
    (limb(n, i - w) % q) * p + (limb(n, i - w - 1) \div q)

shl4(n, d) ==
    LET w == d \div 15
        p == two_to(d % 15)
        q == two_to(15 - (d % 15))
    IN  <<shl_limb(n, w, p, q, 1), shl_limb(n, w, p, q, 2),
          shl_limb(n, w, p, q, 3), shl_limb(n, w, p, q, 4)>>

shl8(n, d) ==
    LET w == d \div 15
        p == two_to(d % 15)
        q == two_to(15 - (d % 15))
    IN  <<shl_limb(n, w, p, q, 1), shl_limb(n, w, p, q, 2),
          shl_limb(n, w, p, q, 3), shl_limb(n, w, p, q, 4),
          shl_limb(n, w, p, q, 5), shl_limb(n, w, p, q, 6),
          shl_limb(n, w, p, q, 7), shl_limb(n, w, p, q, 8)>>

\* Limb i of n \div 2^(15 * w + s), with p = 2^s and q = 2^(15 - s).
shr_limb(n, w, p, q, i) ==
    (limb(n, i + w) \div p) + (limb(n, i + w + 1) % p) * q

shr4(n, k) ==
    LET w == k \div 15
        p == two_to(k % 15)
        q == two_to(15 - (k % 15))
    IN  <<shr_limb(n, w, p, q, 1), shr_limb(n, w, p, q, 2),
          shr_limb(n, w, p, q, 3), shr_limb(n, w, p, q, 4)>>

\* Bit j of n (bit 0 is the least significant), and whether a bit below
\* bit j is set.
bit_at(n, j) == (limb(n, (j \div 15) + 1) \div two_to(j % 15)) % 2

low_bits(n, j) ==
    \/ limb(n, (j \div 15) + 1) % two_to(j % 15) # 0
    \/ \E i \in 1..(j \div 15) : n[i] # 0

add8(a, b) ==
    LET s1 == a[1] + b[1]
        s2 == a[2] + b[2] + (s1 \div Limb)
        s3 == a[3] + b[3] + (s2 \div Limb)
        s4 == a[4] + b[4] + (s3 \div Limb)
        s5 == a[5] + b[5] + (s4 \div Limb)
        s6 == a[6] + b[6] + (s5 \div Limb)
        s7 == a[7] + b[7] + (s6 \div Limb)
        s8 == a[8] + b[8] + (s7 \div Limb)
    IN  <<s1 % Limb, s2 % Limb, s3 % Limb, s4 % Limb,
          s5 % Limb, s6 % Limb, s7 % Limb, s8>>

\* a - b modulo 2^120, and whether b is the larger.
sub8(a, b) ==
    LET s1 == a[1] - b[1]
        s2 == a[2] - b[2] - (IF s1 < 0 THEN 1 ELSE 0)
        s3 == a[3] - b[3] - (IF s2 < 0 THEN 1 ELSE 0)
        s4 == a[4] - b[4] - (IF s3 < 0 THEN 1 ELSE 0)
        s5 == a[5] - b[5] - (IF s4 < 0 THEN 1 ELSE 0)
        s6 == a[6] - b[6] - (IF s5 < 0 THEN 1 ELSE 0)
        s7 == a[7] - b[7] - (IF s6 < 0 THEN 1 ELSE 0)
        s8 == a[8] - b[8] - (IF s7 < 0 THEN 1 ELSE 0)
    IN  [d |-> <<s1 % Limb, s2 % Limb, s3 % Limb, s4 % Limb,
                 s5 % Limb, s6 % Limb, s7 % Limb, s8 % Limb>>,
         borrow |-> s8 < 0]

\* The same on five limbs, b having four or five.
sub5(a, b) ==
    LET s1 == a[1] - b[1]
        s2 == a[2] - b[2] - (IF s1 < 0 THEN 1 ELSE 0)
        s3 == a[3] - b[3] - (IF s2 < 0 THEN 1 ELSE 0)
        s4 == a[4] - b[4] - (IF s3 < 0 THEN 1 ELSE 0)
        s5 == a[5] - limb(b, 5) - (IF s4 < 0 THEN 1 ELSE 0)
    IN  [d |-> <<s1 % Limb, s2 % Limb, s3 % Limb, s4 % Limb, s5 % Limb>>,
         borrow |-> s5 < 0]

inc4(a) ==
    LET s1 == a[1] + 1
        s2 == a[2] + (s1 \div Limb)
        s3 == a[3] + (s2 \div Limb)
        s4 == a[4] + (s3 \div Limb)
    IN  <<s1 % Limb, s2 % Limb, s3 % Limb, s4>>

\* Four limbs times an integer below 2^15.
mul4(a, c) ==
    LET p1 == a[1] * c
        p2 == a[2] * c + (p1 \div Limb)
        p3 == a[3] * c + (p2 \div Limb)
        p4 == a[4] * c + (p3 \div Limb)
    IN  <<p1 % Limb, p2 % Limb, p3 % Limb, p4 % Limb, p4 \div Limb>>

\* Six limbs divided by an integer below 2^15, most significant limb first.
divmod6(a, c) ==
    LET x6 == a[6]
        x5 == (x6 % c) * Limb + a[5]
        x4 == (x5 % c) * Limb + a[4]
        x3 == (x4 % c) * Limb + a[3]
        x2 == (x3 % c) * Limb + a[2]
        x1 == (x2 % c) * Limb + a[1]
    IN  [q |-> <<x1 \div c, x2 \div c, x3 \div c, x4 \div c, x5 \div c,
                 x6 \div c>>,
         r |-> x1 % c]

Float(sign, exp, man) == [sign |-> sign, exp |-> exp, man |-> man]

Zero == Float(0, 0, <<0, 0, 0, 0>>)

\* The number of bits of n.
bit_count_from(n, t) == IF t = 0 THEN 0 ELSE 15 * (t - 1) + bit_length(n[t])

bit_count(n) == bit_count_from(n, top_limb(n, Len(n)))

\* q, the bits of n from bit k on, plus one if the k bits below are more
\* than half a unit of q, or exactly half of it with q odd.
round_up(n, k, sticky, q) ==
    IF /\ bit_at(n, k - 1) = 1
       /\ (sticky \/ low_bits(n, k - 1) \/ q[1] % 2 = 1)
    THEN inc4(q)
    ELSE q

\* A mantissa that rounding has carried to 2^53 is 2^52 one exponent up.
carried(sign, e, q) ==
    IF q[4] = 256 THEN Float(sign, e + 1, <<0, 0, 0, 128>>)
    ELSE Float(sign, e, q)

round_bits(sign, n, e, sticky, len) ==
    IF len = 0 THEN Zero
    ELSE IF len <= 53 THEN Float(sign, e + len - 53, shl4(n, 53 - len))
    ELSE carried(sign, e + len - 53,
                 round_up(n, len - 53, sticky, shr4(n, len - 53)))

\* The float nearest to sign * (n + f) * 2^e, n a limb sequence and f a
\* fraction below 1 that is not 0 exactly if sticky: the 53 leading bits of
\* n, rounded half to even.
round_half_even(sign, n, e, sticky) ==
    round_bits(sign, n, e, sticky, bit_count(n))

\* -a and abs(a)
float_neg(a) == Float(-a.sign, a.exp, a.man)

float_abs(a) == Float(a.sign * a.sign, a.exp, a.man)

\* The sign and the size of x - y, for the signs sa of x and sb of y.
difference(sa, sb, x, y, d) ==
    IF d.borrow THEN [sign |-> sb, n |-> sub8(y, x).d]
    ELSE [sign |-> sa, n |-> d.d]

round_signed(e, m) == round_half_even(m.sign, m.n, e, FALSE)

\* sa * x * 2^e + sb * y * 2^e
add_aligned(sa, sb, e, x, y) ==
    round_signed(e, IF sa = sb THEN [sign |-> sa, n |-> add8(x, y)]
                    ELSE difference(sa, sb, x, y, sub8(x, y)))

\* a + b.  An operand 2^55 times smaller than the last place of the other
\* cannot change it.
float_add(a, b) ==
    IF a.sign = 0 THEN b
    ELSE IF b.sign = 0 THEN a
    ELSE IF a.exp - b.exp >= 55 THEN a
    ELSE IF b.exp - a.exp >= 55 THEN b
    ELSE add_aligned(a.sign, b.sign, Min(a.exp, b.exp),
                     shl8(a.man, a.exp - Min(a.exp, b.exp)),
                     shl8(b.man, b.exp - Min(a.exp, b.exp)))

\* a - b
float_sub(a, b) == float_add(a, float_neg(b))

\* a * c and a / c for a whole number c, 0 < c < 2^15, that Python has
\* converted to a float exactly.
float_mul_int(a, c) ==
    IF a.sign = 0 THEN Zero
    ELSE round_half_even(a.sign, mul4(a.man, c), a.exp, FALSE)

float_div_int(a, c) ==
    IF a.sign = 0 THEN Zero
    ELSE LET d == divmod6(<<0, 0>> \o a.man, c)
         IN  round_half_even(a.sign, d.q, a.exp - 30, d.r # 0)

\* float(k) for an integer k, abs(k) < 2^30
float_of_int(k) ==
    round_half_even(IF k < 0 THEN -1 ELSE 1,
                    <<Abs(k) % Limb, Abs(k) \div Limb>>, 0, FALSE)

\* The float a decimal literal or a parsed number with the value k / d
\* denotes (d a power of ten below 2^15): the float nearest to k / d.
float_of(k, d) == float_div_int(float_of_int(k), d)

One == float_of_int(1)

\* One digit of a long division in base 2^15: r * 2^15 divided by v, for
\* r < v and v of 60 bits.  The digit estimated from the two leading limbs
\* is at most 2 too large.
quotient_digit(r, v) ==
    LET x == <<0>> \o r
        qhat == Min(Limb - 1, (x[5] * Limb + x[4]) \div v[4])
        p0 == mul4(v, qhat)
        d0 == sub5(x, p0)
        p1 == sub5(p0, v).d
        d1 == sub5(x, p1)
        p2 == sub5(p1, v).d
        d2 == sub5(x, p2)
    IN  IF ~d0.borrow THEN [q |-> qhat, r |-> SubSeq(d0.d, 1, 4)]
        ELSE IF ~d1.borrow THEN [q |-> qhat - 1, r |-> SubSeq(d1.d, 1, 4)]
        ELSE [q |-> qhat - 2, r |-> SubSeq(d2.d, 1, 4)]

\* count more digits of r / v in front of the digits q, and what is left.
RECURSIVE quotient_digits(_, _, _, _)
next_digit(v, q, count, d) ==
    quotient_digits(d.r, v, <<d.q>> \o q, count - 1)

quotient_digits(r, v, q, count) ==
    IF count = 0 THEN [q |-> q, r |-> r]
    ELSE next_digit(v, q, count, quotient_digit(r, v))

rounded_quotient(sign, e, d) ==
    round_half_even(sign, d.q, e, d.r # <<0, 0, 0, 0>>)

\* a / b for b # 0: the quotient of the mantissas to 56 bits and whether a
\* remainder is left, rounded.
float_truediv(a, b) ==
    IF a.sign = 0 THEN Zero
    ELSE rounded_quotient(
             a.sign * b.sign, a.exp - b.exp - 56,
             quotient_digits(shl4(a.man, 3), shl4(b.man, 7), <<>>, 4))

\* -1, 0 or 1 as a is less than, equal to or greater than b
float_cmp(a, b) ==
    IF a.sign # b.sign THEN (IF a.sign > b.sign THEN 1 ELSE -1)
    ELSE IF a.sign = 0 \/ (a.exp = b.exp /\ a.man = b.man) THEN 0
    ELSE IF a.exp # b.exp THEN (IF a.exp > b.exp THEN a.sign ELSE -a.sign)
    ELSE IF sub5(a.man \o <<0>>, b.man).borrow THEN -a.sign ELSE a.sign

float_lt(a, b) == float_cmp(a, b) < 0
float_le(a, b) == float_cmp(a, b) <= 0
float_gt(a, b) == float_cmp(a, b) > 0
float_ge(a, b) == float_cmp(a, b) >= 0

\* min(a, b) and max(a, b) of Python: the first argument unless the second
\* is smaller, or larger.
float_min(a, b) == IF float_lt(b, a) THEN b ELSE a
float_max(a, b) == IF float_gt(b, a) THEN b ELSE a

-----------------------------------------------------------------------------
(* The engine's configuration, with the floats its literals denote.  The   *)
(* percentages are written in hundredths of a percentage point and the     *)
(* dollars in thousandths.                                                 *)

ArbitrageConfig(min_profit) ==
    [min_spread_pct |-> float_of(min_spread_pct, 100),
     min_profit_usd |-> float_of(min_profit, 1000),
     polymarket_fee_pct |-> float_of(polymarket_fee_pct, 100),
     limitless_fee_pct |-> float_of(limitless_fee_pct, 100),
     default_slippage_pct |-> float_of(default_slippage_pct, 100),
     base_gas_cost_usd |-> float_of(base_gas_cost_usd, 1000),
     stale_data_threshold_ms |-> stale_data_threshold_ms,
     high_spread_threshold_pct |-> float_of(high_spread_threshold_pct, 100)]

\* Quotes in thousandths.  With a yes quote of 480 the no quotes make the
\* pair sum to 0.958 (a spread of 4.2 percent, above the high-spread
\* threshold), 0.98 (a spread of 2.0000000000000018 percent, at the
\* threshold from above), 0.985 (below it) and 1 (no spread).
YesPrices == {480}
NoPrices == {478, 500, 505, 520}
LimitlessPrices == {480, 500}

\* The quotes of a scan: yes and no.  0.043 + 0.937 is 0.9800000000000001
\* and leaves a spread of 1.9999999999999907 percent, below the threshold
\* that two decimals of it reach and within 0.1 of the spread of 0.48 + 0.5.
Quotes == {<<480, 478>>, <<480, 500>>, <<43, 937>>}

\* min_profit_usd the engine may be constructed with: none, the default.
MinProfits == {0, min_profit_usd}

Eng ==
    [config |-> config,
     polymarket_prices |-> polymarket_prices,
     limitless_prices |-> limitless_prices,
     asset_mappings |-> asset_mappings,
     opportunities |-> opportunities,
     signals |-> signals,
     alerts |-> alerts,
     total_opportunities_found |-> total_opportunities_found,
     _opportunity_counter |-> _opportunity_counter,
     _signal_counter |-> _signal_counter,
     _alert_counter |-> _alert_counter]

_is_data_stale_never(e, t, updated_at) == FALSE

_is_data_stale(e, t, updated_at) ==
    (t - updated_at) > e.config.stale_data_threshold_ms

\* The price a quote in thousandths denotes.
Price(thousandths) == float_of(thousandths, 1000)

\* size_usd * (pct / 100), size_usd a whole number of dollars
PctOf(size_usd, pct) == float_mul_int(float_div_int(pct, 100), size_usd)

\* The dict _calculate_profit returns, of what it has computed.
profit_of(gross_profit_usd, total_fees, gas_cost) ==
    [gross_profit_usd |-> gross_profit_usd,
     fees |-> total_fees,
     gas_cost |-> gas_cost,
     net_profit_usd |->
         float_sub(gross_profit_usd, float_add(total_fees, gas_cost))]

\* entry_price and exit_price are floats, size_usd a whole number of dollars
_calculate_profit(e, entry_price, exit_price, size_usd, direction) ==
    LET gross_spread == float_sub(exit_price, entry_price)
        gross_profit_usd ==
            IF float_gt(entry_price, Zero)
            THEN float_mul_int(float_truediv(gross_spread, entry_price),
                               size_usd)
            ELSE Zero
        entry_fee == PctOf(size_usd, e.config.polymarket_fee_pct)
        exit_fee == IF direction # POLY_INTERNAL
                    THEN PctOf(size_usd, e.config.limitless_fee_pct)
                    ELSE PctOf(size_usd, e.config.polymarket_fee_pct)
        slippage == PctOf(size_usd, e.config.default_slippage_pct)
        gas_cost == IF direction # POLY_INTERNAL
                    THEN float_mul_int(e.config.base_gas_cost_usd, 2)
                    ELSE e.config.base_gas_cost_usd
        total_fees == float_add(float_add(entry_fee, exit_fee), slippage)
    IN  profit_of(gross_profit_usd, total_fees, gas_cost)

ArbitrageOpportunity(id, market_id, pool, direction, spread_pct, profit, t) ==
    [id |-> id,
     polymarket_market_id |-> market_id,
     limitless_pool |-> pool,
     direction |-> direction,
     spread_pct |-> spread_pct,
     net_profit_usd |-> profit.net_profit_usd,
     discovered_at |-> t,
     status |-> "active"]

\* _check_polymarket_internal from the sum of the prices on: None, or the
\* spread and the profit of the opportunity it goes on to build.
internal_tests(e, total, spread_pct, profit) ==
    IF float_lt(spread_pct, e.config.min_spread_pct) THEN None
    ELSE IF ~float_lt(total, One) THEN None
    ELSE IF float_lt(profit.net_profit_usd, e.config.min_profit_usd)
    THEN None
    ELSE Some([direction |-> POLY_INTERNAL, spread_pct |-> spread_pct,
               profit |-> profit])

internal_spread(e, total) ==
    internal_tests(e, total,
                   float_mul_int(float_abs(float_sub(One, total)), 100),
                   _calculate_profit(e, total, One, detector_size_usd,
                                     POLY_INTERNAL))

polymarket_internal_found(e, data) ==
    IF data.yes_price <= 0 \/ data.no_price <= 0 THEN None
    ELSE internal_spread(e, float_add(Price(data.yes_price),
                                      Price(data.no_price)))

\* _check_cross_platform from the two prices on: None, or the direction,
\* the spread and the profit of the opportunity.
cross_tests(e, direction, spread_pct, profit) ==
    IF float_lt(spread_pct, e.config.min_spread_pct) THEN None
    ELSE IF float_lt(profit.net_profit_usd, e.config.min_profit_usd)
    THEN None
    ELSE Some([direction |-> direction, spread_pct |-> spread_pct,
               profit |-> profit])

cross_direction(e, poly_yes, limitless_price, direction) ==
    cross_tests(e, direction,
                float_mul_int(
                    float_truediv(
                        float_abs(float_sub(poly_yes, limitless_price)),
                        float_min(poly_yes, limitless_price)),
                    100),
                _calculate_profit(e, float_min(poly_yes, limitless_price),
                                  float_max(poly_yes, limitless_price),
                                  detector_size_usd, direction))

cross_spread(e, poly_yes, limitless_price) ==
    cross_direction(e, poly_yes, limitless_price,
                    IF float_lt(poly_yes, limitless_price)
                    THEN POLY_TO_LIMITLESS ELSE LIMITLESS_TO_POLY)

cross_platform_found(e, poly_data, limitless_data) ==
    IF poly_data.yes_price <= 0 \/ limitless_data.price <= 0 THEN None
    ELSE cross_spread(e, Price(poly_data.yes_price),
                      Price(limitless_data.price))

\* What a detector finds depends on the configuration and the quotes
\* alone.  For the configurations and the quotes of the specifications
\* below it is computed once and looked up, for any other it is computed
\* where it is needed.
Computed(table, key, value) ==
    IF key \in DOMAIN table THEN table[key] ELSE value

InternalFound ==
    [k \in {<<ArbitrageConfig(mp), y, n>> :
                mp \in MinProfits,
                y \in YesPrices \cup {q[1] : q \in Quotes},
                n \in NoPrices \cup {q[2] : q \in Quotes}}
        |-> polymarket_internal_found(
                [config |-> k[1]], [yes_price |-> k[2], no_price |-> k[3]])]

CrossFound ==
    [k \in {<<ArbitrageConfig(mp), y, x>> :
                mp \in MinProfits,
                y \in YesPrices \cup {q[1] : q \in Quotes},
                x \in LimitlessPrices}
        |-> cross_platform_found(
                [config |-> k[1]], [yes_price |-> k[2]], [price |-> k[3]])]

\* Both detectors answer the engine after the call and the opportunity, if
\* any: an opportunity takes the next value of _opportunity_counter into
\* its id.
Detected(e, t, strategy, market_id, pool, found) ==
    IF found = None THEN [e |-> e, opp |-> None]
    ELSE [e |-> [e EXCEPT !._opportunity_counter = @ + 1],
          opp |-> Some(ArbitrageOpportunity(
                     <<strategy, market_id, e._opportunity_counter + 1>>,
                     market_id, pool, found[1].direction,
                     found[1].spread_pct, found[1].profit, t))]

_check_polymarket_internal(e, t, market_id, data) ==
    Detected(e, t, "poly_internal", market_id, None,
             Computed(InternalFound,
                      <<e.config, data.yes_price, data.no_price>>,
                      polymarket_internal_found(e, data)))

_check_cross_platform(e, t, poly_id, poly_data, limitless_pool, limitless_data) ==
    Detected(e, t, "cross", poly_id, Some(limitless_pool),
             Computed(CrossFound,
                      <<e.config, poly_data.yes_price, limitless_data.price>>,
                      cross_platform_found(e, poly_data, limitless_data)))

_generate_signal(e, opportunity) ==
    LET n == e._signal_counter + 1
    IN  [e |-> [e EXCEPT !._signal_counter = n],
         signal |-> [id |-> n, opportunity_id |-> opportunity.id,
                     status |-> "active"]]

_generate_alert(e, opportunity) ==
    LET n == e._alert_counter + 1
    IN  [e |-> [e EXCEPT !._alert_counter = n],
         alert |-> [id |-> n, opportunity_id |-> opportunity.id,
                    acknowledged |-> FALSE]]

\* A call of a registered callback, named by the opportunity it is about.
Event(cb, opportunity) == [cb |-> cb, id |-> opportunity.id]

\* The spread that rounds to the threshold at two decimals is not always at
\* the threshold: 0.043 + 0.937 leaves a spread of 1.9999999999999907.
_on_new_opportunity_rounded(e, opportunity) ==
    LET s == _generate_signal(e, opportunity)
        e1 == [s.e EXCEPT !.signals = Append(@, s.signal)]
        high == float_ge(float_add(opportunity.spread_pct, float_of(5, 1000)),
                         e.config.high_spread_threshold_pct)
        a == _generate_alert(e1, opportunity)
        e2 == IF high THEN [a.e EXCEPT !.alerts = Append(@, a.alert)] ELSE e1
    IN  [e |-> e2,
         ev |-> (IF high THEN <<Event("on_alert", opportunity)>> ELSE <<>>)
                \o <<Event("on_opportunity", opportunity),
                     Event("on_signal", opportunity)>>]

_on_new_opportunity(e, opportunity) ==
    LET s == _generate_signal(e, opportunity)
        e1 == [s.e EXCEPT !.signals = Append(@, s.signal)]
        high == float_ge(opportunity.spread_pct,
                         e.config.high_spread_threshold_pct)
        a == _generate_alert(e1, opportunity)
        e2 == IF high THEN [a.e EXCEPT !.alerts = Append(@, a.alert)] ELSE e1
    IN  [e |-> e2,
         ev |-> (IF high THEN <<Event("on_alert", opportunity)>> ELSE <<>>)
                \o <<Event("on_opportunity", opportunity),
                     Event("on_signal", opportunity)>>]

_on_opportunity_update(e, opportunity) ==
    [e |-> e, ev |-> <<Event("on_opportunity", opportunity)>>]

\* What a detector found, in front of what the rest of its loop finds.
found_then(opp, rest) == [e |-> rest.e, opps |-> opp \o rest.opps]

\* scan_for_opportunities, first loop: the cached markets in dict order.
RECURSIVE ScanInternal(_, _, _)
internal_then(r, t, market_ids) ==
    found_then(r.opp, ScanInternal(r.e, t, market_ids))

ScanInternal(e, t, market_ids) ==
    IF market_ids = <<>> THEN [e |-> e, opps |-> <<>>]
    ELSE LET market_id == Head(market_ids)
             data == e.polymarket_prices[market_id]
         IN  internal_then(
                 IF data = None \/ _is_data_stale(e, t, data[1].updated_at)
                 THEN [e |-> e, opp |-> None]
                 ELSE _check_polymarket_internal(e, t, market_id, data[1]),
                 t, Tail(market_ids))

\* scan_for_opportunities, second loop: the mapped pairs in dict order.
RECURSIVE ScanCross(_, _, _)
cross_then(r, t, poly_ids) ==
    found_then(r.opp, ScanCross(r.e, t, poly_ids))

ScanCross(e, t, poly_ids) ==
    IF poly_ids = <<>> THEN [e |-> e, opps |-> <<>>]
    ELSE LET poly_id == Head(poly_ids)
             mapped == e.asset_mappings[poly_id]
             poly_data == e.polymarket_prices[poly_id]
             limitless_data ==
                 IF mapped = None THEN None ELSE e.limitless_prices[mapped[1]]
         IN  cross_then(
                 IF \/ mapped = None
                    \/ poly_data = None
                    \/ limitless_data = None
                 THEN [e |-> e, opp |-> None]
                 ELSE IF \/ _is_data_stale(e, t, poly_data[1].updated_at)
                         \/ _is_data_stale(e, t, limitless_data[1].updated_at)
                 THEN [e |-> e, opp |-> None]
                 ELSE _check_cross_platform(e, t, poly_id, poly_data[1],
                                            mapped[1], limitless_data[1]),
                 t, Tail(poly_ids))

\* scan_for_opportunities, both loops: the engine after them and the
\* opportunities list.
cross_after(found, cross) == [e |-> cross.e, opps |-> found \o cross.opps]

internal_after(t, internal) ==
    cross_after(internal.opps, ScanCross(internal.e, t, PolyOrder))

ScanFound(e, t) == internal_after(t, ScanInternal(e, t, PolyOrder))

\* scan_for_opportunities, third loop: store, then new or update.
\* One pass of the third loop's body; ev lists the callbacks it awaits, in
\* order, every field it writes being written before the first of them.
StoreOne(e, opp) ==
    LET existing == {o \in e.opportunities : o.id = opp.id}
        e1 == [e EXCEPT !.opportunities = (@ \ existing) \cup {opp}]
    IN  IF existing = {}
        THEN _on_new_opportunity(
                 [e1 EXCEPT !.total_opportunities_found = @ + 1], opp)
        ELSE IF \E o \in existing :
                  float_gt(float_abs(float_sub(opp.spread_pct, o.spread_pct)),
                           float_of(spread_update_delta_pct, 100))
        THEN _on_opportunity_update(e1, opp)
        ELSE [e |-> e1, ev |-> <<>>]

RECURSIVE StoreAll(_, _, _)
StoreAll(e, opps, ev) ==
    IF opps = <<>> THEN [e |-> e, ev |-> ev]
    ELSE LET r == StoreOne(e, Head(opps))
         IN  StoreAll(r.e, Tail(opps), ev \o r.ev)

scan_return(opportunities_list, stored) ==
    [e |-> stored.e, ev |-> stored.ev, ret |-> opportunities_list]

scan_store(found) == scan_return(found.opps, StoreAll(found.e, found.opps, <<>>))

scan_for_opportunities(e, t) == scan_store(ScanFound(e, t))

update_polymarket_price(e, t, market_id, yes_price, no_price) ==
    [e EXCEPT !.polymarket_prices[market_id] =
        Some([yes_price |-> yes_price, no_price |-> no_price,
              updated_at |-> t])]

update_limitless_price(e, t, pool_address, price) ==
    [e EXCEPT !.limitless_prices[pool_address] =
        Some([price |-> price, updated_at |-> t])]

add_asset_mapping(e, polymarket_id, limitless_pool) ==
    [e EXCEPT !.asset_mappings[polymarket_id] = Some(limitless_pool)]

-----------------------------------------------------------------------------
(* Actions: one per exposed operation of the breaker.                      *)

\* trade_size_usd: a small trade and one that fills a market's cap alone.
Sizes == {1, max_position_per_market}

\* estimated_loss_usd: no loss, one above the per-trade cap only, and one
\* that alone exceeds the daily limit.
Losses == {0, max_loss_per_trade_usd + 1, max_daily_loss_usd + 1}

\* What a caller saw of the last call: the operation, its boolean answer,
\* the state or rejection it named, and for a failure report the state the
\* breaker was in before it.
NoCall == [op |-> "init", ok |-> TRUE, reason |-> "none", from |-> "any"]

Call(name, ok, why) == [op |-> name, ok |-> ok, reason |-> why, from |-> "any"]

Install(b) ==
    /\ state' = b.state
    /\ positions' = b.positions
    /\ daily_metrics' = b.daily_metrics
    /\ trip_time' = b.trip_time
    /\ error_count' = b.error_count
    /\ breaker_config' = b.config

\* The failure streak survives a call that leaves the live counter alone.
StreakAfter(b) ==
    IF b.error_count = 0 THEN Some(0)
    ELSE IF b.error_count = error_count THEN streak
    ELSE None

Tick ==
    /\ now < MaxTime
    /\ now' = now + 1
    /\ UNCHANGED <<today, notEngine, notBreaker>>

GetState ==
    LET b == get_state(This, now)
    IN  /\ Install(b)
        /\ last' = Call("get_state", TRUE, b.state)
        /\ phase' = IF phase = 1 /\ b.state = OPEN THEN 1
                    ELSE IF phase = 1 /\ b.state = HALF_OPEN THEN 2
                    ELSE IF phase = 3 /\ b.state = CLOSED THEN 4
                    ELSE 0
        /\ streak' = StreakAfter(b)
        /\ UNCHANGED <<envVars, attempts, notBreaker>>

CanTrade ==
    LET r == can_trade(This, now)
    IN  /\ Install(r.b)
        /\ last' = Call("can_trade", r.ret, r.b.state)
        /\ phase' = 0
        /\ streak' = StreakAfter(r.b)
        /\ UNCHANGED <<envVars, attempts, notBreaker>>

\* RoundTrip: the phase observer follows one trip/cooldown round trip.
\*   1  a daily-loss trip was just taken from CLOSED with a live error counter
\*      of 0 and the daily P&L above the loss limit; since then only the
\*      clock has moved (and get_state has answered OPEN)
\*   2  the next get_state answered HALF_OPEN; since then only the clock moved
\*   3  a success was then reported; since then only the clock moved
\*   4  the get_state after that answered CLOSED
\*   0  anything else
OpensRoundTrip(r) ==
    LET b1 == can_trade(This, now).b
    IN  /\ r.reason = "daily_loss"
        /\ b1.state = CLOSED
        /\ b1.error_count = 0
        /\ b1.daily_metrics.consecutive_errors
                < b1.config.max_consecutive_errors
        /\ b1.daily_metrics.total_pnl_usd > -b1.config.max_daily_loss_usd

ValidateTrade(m, s, l) ==
    LET r == validate_trade(This, now, m, s, l)
    IN  /\ Install(r.b)
        /\ last' = Call("validate_trade", r.can_execute, r.reason)
        /\ phase' = IF OpensRoundTrip(r) THEN 1 ELSE 0
        /\ streak' = StreakAfter(r.b)
        /\ UNCHANGED <<envVars, attempts, notBreaker>>

PnlAfter(res) ==
    daily_metrics.total_pnl_usd
        + (IF res.position # None THEN res.position[1].unrealized_pnl_usd ELSE 0)

RecordSuccess(res) ==
    /\ daily_metrics.successful_trades < MaxTrades
    /\ PnlAfter(res) \in (-max_daily_loss_usd)..1
    /\ LET b == record_success(This, res)
       IN  /\ Install(b)
           /\ last' = Call("record_success", TRUE, "none")
           /\ phase' = IF phase = 2 THEN 3 ELSE 0
           /\ streak' = StreakAfter(b)
           /\ UNCHANGED <<envVars, attempts, notBreaker>>

UpdatePosition(m, res) ==
    /\ ~res.success => daily_metrics.failed_trades < MaxFailed
    /\ LET b == update_position(This, now, m, res)
       IN  /\ Install(b)
           /\ last' = [Call("update_position", res.success, "none")
                          EXCEPT !.from = IF res.success THEN "any" ELSE state]
           /\ phase' = IF phase = 2 /\ res.success THEN 3 ELSE 0
           /\ streak' = IF ~res.success
                        THEN (IF streak # None THEN Some(streak[1] + 1) ELSE None)
                        ELSE StreakAfter(b)
           /\ UNCHANGED <<envVars, attempts, notBreaker>>

ManualReset ==
    LET b == manual_reset(This)
    IN  /\ Install(b)
        /\ last' = Call("manual_reset", TRUE, "none")
        /\ phase' = 0
        /\ streak' = StreakAfter(b)
        /\ UNCHANGED <<envVars, attempts, notBreaker>>

ManualTrip ==
    LET b == manual_trip(This, now)
    IN  /\ Install(b)
        /\ last' = Call("manual_trip", TRUE, "none")
        /\ phase' = 0
        /\ streak' = StreakAfter(b)
        /\ UNCHANGED <<envVars, attempts, notBreaker>>

\* The keyword arguments of update_config: both position limits raised,
\* the constructor's position limits again, and a key that names no
\* attribute.
ConfigUpdates ==
    {[max_position_per_market |-> max_position_per_market + 1,
      max_total_position |-> max_total_position + 1],
     [max_position_per_market |-> max_position_per_market,
      max_total_position |-> max_total_position],
     [max_positions |-> max_total_position + 1]}

UpdateConfig(kwargs) ==
    LET b == update_config(This, kwargs)
    IN  /\ Install(b)
        /\ last' = Call("update_config", TRUE, "none")
        /\ phase' = 0
        /\ streak' = StreakAfter(b)
        /\ UNCHANGED <<envVars, attempts, notBreaker>>

FailureResult == TradeResult(FALSE, 0, None)

\* A trade attempt is a caller of the breaker: a direct call of
\* validate_trade(market, size, 0), then the execution at the venue (where
\* the caller is suspended and other attempts run), then the report of the
\* fill through update_position.  seen is the market's position the
\* validation read.  The execute endpoint (endpoints/arbitrage.py:210-243)
\* is no such caller: it raises before it reaches validate_trade.
IdleAttempt == [pc |-> "idle", market |-> "m1", size |-> 0, seen |-> 0]

AttemptValidate(a, m, s) ==
    /\ attempts[a].pc = "idle"
    /\ LET r == validate_trade(This, now, m, s, 0)
       IN  /\ Install(r.b)
           /\ attempts' = [attempts EXCEPT ![a] =
                    [pc |-> IF r.can_execute THEN "approved" ELSE "rejected",
                     market |-> m, size |-> s, seen |-> PositionSize(This, m)]]
           /\ last' = Call("validate_trade", r.can_execute, r.reason)
           /\ phase' = 0
           /\ streak' = StreakAfter(r.b)
           /\ UNCHANGED <<envVars, notBreaker>>

AttemptCommit(a) ==
    /\ attempts[a].pc = "approved"
    /\ LET fill == TradeResult(TRUE, 0, Some(Position(attempts[a].size, 0)))
           b == update_position(This, now, attempts[a].market, fill)
       IN  /\ Install(b)
           /\ attempts' = [attempts EXCEPT ![a].pc = "committed"]
           /\ last' = Call("update_position", TRUE, "none")
           /\ phase' = 0
           /\ streak' = StreakAfter(b)
           /\ UNCHANGED <<envVars, notBreaker>>

AttemptFail(a) ==
    /\ attempts[a].pc = "approved"
    /\ daily_metrics.failed_trades < MaxFailed
    /\ LET b == update_position(This, now, attempts[a].market, FailureResult)
       IN  /\ Install(b)
           /\ attempts' = [attempts EXCEPT ![a].pc = "failed"]
           /\ last' = [Call("update_position", FALSE, "none")
                          EXCEPT !.from = state]
           /\ phase' = 0
           /\ streak' = IF streak # None THEN Some(streak[1] + 1) ELSE None
           /\ UNCHANGED <<envVars, notBreaker>>

-----------------------------------------------------------------------------
(* WebSocketManager (websocket_manager.py).  ConnectionInfo objects, the    *)
(* tasks running _connect_with_retry and the transports returned by         *)
(* websockets.connect are kept in sequences and referred to by position,    *)
(* because the manager's dictionaries can drop or replace their reference   *)
(* to an object that a running task still holds.  Delays are in seconds.    *)

MaxLoops == 2
MaxTransports == 2
MaxMessages == 2
MaxWorkers == 2
MaxAdds == 1            \* add_client calls per client sink
MaxCalls == 1           \* direct calls of broadcast_to_clients

max_reconnect_attempts == 3
max_reconnect_delay == 3
reconnect_delay == 1
MaxReceived == 2        \* messages the receive loops take in all

Names == {"s1"}
Clients == {"c1", "c2"}
\* message_handler arguments of add_source_connection: a handler is given
Handlers == {TRUE}

CONNECTING == "connecting"
CONNECTED == "connected"
DISCONNECTED == "disconnected"
ERROR == "error"
RECONNECTING == "reconnecting"

\* ConnectionInfo(name, url) with the dataclass defaults.  trail lists the
\* statuses assigned to the object by the latest step that assigned a status
\* to any object; attempted tells whether a connection attempt was ever made
\* and failed counts the failed attempts since the last successful one.
ConnectionInfo(name) ==
    [name |-> name, status |-> DISCONNECTED, websocket |-> None,
     reconnect_attempts |-> 0, reconnect_delay |-> reconnect_delay,
     trail |-> <<>>, attempted |-> FALSE, failed |-> 0]

\* A task running _connect_with_retry(name): conn is the local variable of
\* _connect_with_retry, rconn and rt the ConnectionInfo and the transport
\* _receive_messages iterates over, delay the last backoff wait, message
\* the message whose handler the task waits in.
LoopTask(name) ==
    [name |-> name, pc |-> "created", conn |-> None, rconn |-> None,
     rt |-> None, delay |-> 0, message |-> None]

RECURSIVE Pow2(_)
Pow2(n) == IF n <= 0 THEN 1 ELSE 2 * Pow2(n - 1)

backoff_delay_uncapped(c) ==
    c.reconnect_delay * Pow2(c.reconnect_attempts - 1)

\* min(conn.reconnect_delay * (2 ** (conn.reconnect_attempts - 1)),
\*     conn.max_reconnect_delay)
backoff_delay(c) ==
    Min(c.reconnect_delay * Pow2(c.reconnect_attempts - 1),
        max_reconnect_delay)

InitWs ==
    /\ ws_running = FALSE
    /\ source_connections = [n \in Names |-> None]
    /\ message_handlers = [n \in Names |-> FALSE]
    /\ client_connections = {}
    /\ _tasks = [broadcast |-> None, connect |-> [n \in Names |-> None]]
    /\ _broadcast_queue = <<>>
    /\ conns = <<>>
    /\ loops = <<>>
    /\ transports = <<>>
    /\ workers = <<>>
    /\ delivered = [c \in Clients |-> <<>>]
    /\ adding = [c \in Clients |-> [calls |-> 0, waiting |-> 0]]
    /\ put_count = 0
    /\ inbound = [count |-> 0, latest |-> None]
    /\ _lock = None
    /\ stopping = None

-----------------------------------------------------------------------------
(* L2 order book VWAP calculator (l2_calculator.py).  Prices are in cents,  *)
(* sizes in dollars; the sizes drawn are multiples of 100 / liquidity       *)
(* factor percentage, so the scaled sizes are whole dollars.  vwap_cents    *)
(* and slippage_cents are in tenths of a cent (the code rounds them to one  *)
(* decimal); execution_cost_usd is the fraction <<numerator, denominator>>  *)
(* of dollars.  Comparisons of averages are made by cross-multiplication.   *)

MaxLevels == 3
max_depth == 2
liquidity_factor_pct == 50
max_slippage_cents == 2

OrderBookLevel(price, size) == [price |-> price, size |-> size]

L2OrderBook(bids, asks) == [bids |-> bids, asks |-> asks]

VWAPResult(optimal_size, vwap_cents, slippage_cents, total_liquidity, levels_used, execution_cost_usd) ==
    [optimal_size |-> optimal_size, vwap_cents |-> vwap_cents,
     slippage_cents |-> slippage_cents, total_liquidity |-> total_liquidity,
     levels_used |-> levels_used, execution_cost_usd |-> execution_cost_usd]

\* round(x, 1) of a numpy float64 x.  Where np.float64 defines __round__ it
\* is numpy's rounding, rint(x * 10) / 10 on doubles ("around"); where it
\* does not, it is the rounding of the Python float that np.float64
\* inherits, which is correct for the exact value of the double
\* ("float_round").  The repository pins no numpy version.
RoundImpls == {"around", "float_round"}

\* The largest e with 2^e <= n / d (n > 0, d > 0)
RECURSIVE FloorLog2(_, _)
FloorLog2(n, d) ==
    IF n >= 2 * d THEN 1 + FloorLog2(n, 2 * d)
    ELSE IF n < d THEN FloorLog2(2 * n, d) - 1
    ELSE 0

\* (a * 2^g) % m, by doubling
RECURSIVE ShiftMod(_, _, _)
ShiftMod(a, g, m) ==
    IF g = 0 THEN a % m ELSE ShiftMod((2 * a) % m, g - 1, m)

\* A float64 that stands for an exact quotient of denominator d: the double
\* is the quotient plus (err / d) * 2^-g.
Rounded(g, err) == [g |-> g, err |-> err]

\* n / d in float64 (n >= 0, d > 0): the nearest double, whose last bit
\* weighs 2^-g.
true_divide(n, d) ==
    IF n = 0 THEN Rounded(0, 0)
    ELSE LET g == 52 - FloorLog2(n, d)
             r == ShiftMod(n % d, g, d)
         IN  Rounded(g, IF 2 * r < d THEN -r ELSE d - r)

\* sign * (v - a) in float64, v being the double true_divide(n, d) and a an
\* integer: the error of v carries over, and where the difference has a
\* larger exponent than v it is rounded once more, to 2^k last bits of v
\* (ties to the even one).  The result stands for sign * (n - a * d) / d.
subtract(n, d, v, a, sign) ==
    LET m == sign * (n - a * d)
        e == sign * v.err
        sg == IF m > 0 THEN 1 ELSE -1
        am == sg * m
        k == FloorLog2(am, d) - (52 - v.g)
        R == ShiftMod(am % (d * 2^(k + 1)), v.g, d * 2^(k + 1))
        ra == R % d
        up == IF ra + sg * e = d THEN 1 ELSE 0
        W == ((R \div d) + up) % 2^(k + 1)
        B == W % 2^k
        adj == IF 2 * B < 2^k THEN -B
               ELSE IF 2 * B > 2^k THEN 2^k - B
               ELSE IF (W \div 2^k) % 2 = 0 THEN -B
               ELSE 2^k - B
    IN  IF m = 0 \/ v.err = 0 THEN Rounded(v.g, e)
        ELSE IF k <= 0 THEN Rounded(v.g, e)
        ELSE Rounded(v.g, sg * ((up + adj) * d - ra))

\* x * 10 in float64 is q + 1/2 itself, x > 0 being a double that stands
\* for (q + 1/2) / 10: its error times 10 is at most half the last bit of
\* q + 1/2 (a quarter of it below 1/2, where the doubles are twice as dense).
Collapses(q, d, x) ==
    LET gT == 52 - FloorLog2(2 * q + 1, 2)
                + (IF q = 0 /\ x.err < 0 THEN 1 ELSE 0)
        D == x.g - gT
        ae == IF x.err < 0 THEN -x.err ELSE x.err
    IN  IF D >= 0 THEN D >= 20 \/ 20 * ae <= d * 2^D
        ELSE -D < 20 /\ 20 * ae * 2^(-D) <= d

\* round(x, 1) in tenths, x being the double that stands for n / d (d > 0).
\* The two roundings differ on a double next to a tie: numpy's goes to the
\* even tenth when x * 10 is the tie in float64, the Python float's goes
\* to the side of the tie the double lies on.
RECURSIVE RoundTenths(_, _, _, _)
RoundTenths(n, d, x, impl) ==
    IF n < 0 THEN -RoundTenths(-n, d, Rounded(x.g, -x.err), impl)
    ELSE LET q == (10 * n) \div d
             r == 10 * n - q * d
         IN  IF 2 * r < d THEN q
             ELSE IF 2 * r > d THEN q + 1
             ELSE IF x.err = 0 THEN q + (q % 2)
             ELSE IF impl = "around" /\ Collapses(q, d, x) THEN q + (q % 2)
             ELSE IF x.err > 0 THEN q + 1
             ELSE q

\* round(final_vwap, 1), final_vwap = cost / size in float64
round_vwap(cost, size) ==
    RoundTenths(cost, size, true_divide(cost, size), np_round)

\* round(final_slippage, 1), final_slippage = sign * (cost / size - best)
\* in float64
round_slippage(cost, size, best, sign) ==
    RoundTenths(sign * (cost - best * size), size,
                subtract(cost, size, true_divide(cost, size), best, sign),
                np_round)

\* np.cumsum
RECURSIVE cumsum(_)
cumsum(a) ==
    IF Len(a) = 0 THEN <<>>
    ELSE LET before == cumsum(SubSeq(a, 1, Len(a) - 1))
         IN  Append(before,
                    a[Len(a)] + (IF Len(before) = 0 THEN 0
                                 ELSE before[Len(before)]))

\* valid_indices[0]
first_valid_idx(valid_mask) ==
    CHOOSE i \in DOMAIN valid_mask :
        valid_mask[i] /\ \A j \in DOMAIN valid_mask : valid_mask[j] => i <= j

\* valid_indices[-1]
max_valid_idx(valid_mask) ==
    CHOOSE i \in DOMAIN valid_mask :
        valid_mask[i] /\ \A j \in DOMAIN valid_mask : valid_mask[j] => j <= i

\* The whole tolerated depth, whatever the target
whole_depth(depth_size, target) == depth_size

\* optimal_size = min(cumulative_sizes[max_valid_idx], target_size_dollars)
clip_to_target(depth_size, target) == Min(depth_size, target)

\* The side has no level at all
no_levels(side) == Len(side) = 0

\* if not orderbook.asks: return ...; if best_ask == 0: return ...
no_best_price(side) == Len(side) = 0 \/ side[1].price = 0

\* The walk reporting the figures of the shallowest prefix that holds the
\* optimal size, instead of those of the deepest tolerated one
vwap_walk_interpolated(side, target, sign) ==
    IF no_best_price(side) THEN VWAPResult(0, 0, 0, 0, 0, <<0, 1>>)
    ELSE
    LET best == side[1].price
        depths == Min(Len(side), max_depth)
        prices == [i \in 1..depths |-> side[i].price]
        adjusted_sizes ==
            [i \in 1..depths |-> (side[i].size * liquidity_factor_pct) \div 100]
        cumulative_sizes == cumsum(adjusted_sizes)
        cumulative_costs ==
            cumsum([i \in 1..depths |-> prices[i] * adjusted_sizes[i]])
        valid_mask ==
            [i \in 1..depths |->
                /\ cumulative_sizes[i] # 0
                /\ sign * (cumulative_costs[i] - best * cumulative_sizes[i])
                        <= max_slippage_cents * cumulative_sizes[i]]
    IN  IF \A i \in 1..depths : ~valid_mask[i]
        THEN VWAPResult(0, 10 * best, 0, 0, 0, <<0, 1>>)
        ELSE LET idx == max_valid_idx(valid_mask)
                 optimal_size == clip_to_target(cumulative_sizes[idx], target)
                 fill == CHOOSE i \in 1..idx :
                            /\ cumulative_sizes[i] >= optimal_size
                            /\ \A j \in 1..(i - 1) :
                                    cumulative_sizes[j] < optimal_size
             IN  VWAPResult(
                    optimal_size,
                    round_vwap(cumulative_costs[fill], cumulative_sizes[fill]),
                    round_slippage(cumulative_costs[fill],
                                   cumulative_sizes[fill], best, sign),
                    cumulative_sizes[fill],
                    fill,
                    <<optimal_size * cumulative_costs[fill],
                      cumulative_sizes[fill] * 100>>)

\* The body shared by calculate_buy_vwap (side = orderbook.asks, sign = 1)
\* and calculate_sell_vwap (side = orderbook.bids, sign = -1).
vwap_walk(side, target, sign) ==
    IF no_best_price(side) THEN VWAPResult(0, 0, 0, 0, 0, <<0, 1>>)
    ELSE
    LET best == side[1].price
        depths == Min(Len(side), max_depth)
        prices == [i \in 1..depths |-> side[i].price]
        adjusted_sizes ==
            [i \in 1..depths |-> (side[i].size * liquidity_factor_pct) \div 100]
        cumulative_sizes == cumsum(adjusted_sizes)
        cumulative_costs ==
            cumsum([i \in 1..depths |-> prices[i] * adjusted_sizes[i]])
        \* 0 / 0 is nan, and nan <= max_slippage_cents is False
        valid_mask ==
            [i \in 1..depths |->
                /\ cumulative_sizes[i] # 0
                /\ sign * (cumulative_costs[i] - best * cumulative_sizes[i])
                        <= max_slippage_cents * cumulative_sizes[i]]
    IN  IF \A i \in 1..depths : ~valid_mask[i]
        THEN VWAPResult(0, 10 * best, 0, 0, 0, <<0, 1>>)
        ELSE LET idx == max_valid_idx(valid_mask)
                 optimal_size == clip_to_target(cumulative_sizes[idx], target)
             IN  VWAPResult(
                    optimal_size,
                    round_vwap(cumulative_costs[idx], cumulative_sizes[idx]),
                    round_slippage(cumulative_costs[idx],
                                   cumulative_sizes[idx], best, sign),
                    cumulative_sizes[idx],
                    idx,
                    <<optimal_size * cumulative_costs[idx],
                      cumulative_sizes[idx] * 100>>)

calculate_buy_vwap(book, target) == vwap_walk(book.asks, target, 1)

calculate_sell_vwap(book, target) == vwap_walk(book.bids, target, -1)

\* OrderbookConfig.min_liquidity, dollars
min_liquidity == 50

\* The size of the first leg alone
first_leg_size(yes_leg, no_leg) == yes_leg.optimal_size

\* combined_optimal_size = min(yes_leg.optimal_size, no_leg.optimal_size)
smaller_leg_size(yes_leg, no_leg) ==
    Min(yes_leg.optimal_size, no_leg.optimal_size)

\* Both legs are bought: each is a walk over the asks of its own book.
\* total_slippage_cents is in tenths of a cent, as the leg slippages are.
calculate_arbitrage_vwap(yes_orderbook, no_book, target) ==
    LET yes_leg == calculate_buy_vwap(yes_orderbook, target)
        no_leg == calculate_buy_vwap(no_book, target)
        combined_optimal_size == smaller_leg_size(yes_leg, no_leg)
        total_slippage_cents == yes_leg.slippage_cents + no_leg.slippage_cents
        can_execute ==
            /\ combined_optimal_size >= min_liquidity
            /\ total_slippage_cents <= 10 * (max_slippage_cents * 2)
    IN  [yes_leg |-> yes_leg,
         no_leg |-> no_leg,
         combined_optimal_size |-> combined_optimal_size,
         total_slippage_cents |-> total_slippage_cents,
         can_execute |-> can_execute]

InitL2(book, no_book, target, impl) ==
    /\ orderbook = book
    /\ np_round = impl
    /\ no_orderbook = no_book
    /\ target_size_dollars = target
    /\ vwap_result = [op |-> "none", result |-> None]
    /\ detection = [strategy |-> "none", market |-> None, fees_cents |-> 0,
                    result |-> None]

InitBreaker ==
    /\ breaker_config = CircuitBreakerConfig
    /\ state = CLOSED
    /\ positions = [m \in Markets |-> None]
    /\ today = 1
    /\ daily_metrics = _initialize_daily_metrics(1)
    /\ trip_time = None
    /\ error_count = 0
    /\ now = 1
    /\ last = NoCall
    /\ phase = 0
    /\ streak = Some(0)
    /\ attempts = [a \in Attempts |-> IdleAttempt]

InitEngine(cfg) ==
    /\ config = cfg
    /\ polymarket_prices = [m \in PolyMarkets |-> None]
    /\ limitless_prices = [p \in Pools |-> None]
    /\ asset_mappings = [m \in PolyMarkets |-> None]
    /\ opportunities = {}
    /\ signals = <<>>
    /\ alerts = <<>>
    /\ total_opportunities_found = 0
    /\ _opportunity_counter = 0
    /\ _signal_counter = 0
    /\ _alert_counter = 0
    /\ emitted = <<>>
    /\ since_scan = "changed"
    /\ _running = FALSE
    /\ _scan_task = None
    /\ tasks = <<>>
    /\ tick = <<>>

Init ==
    /\ InitBreaker
    /\ InitEngine(ArbitrageConfig(min_profit_usd))
    /\ InitWs
    /\ InitL2(L2OrderBook(<<>>, <<>>), L2OrderBook(<<>>, <<>>), 1, "around")

Next ==
    \/ Tick
    \/ GetState
    \/ CanTrade
    \/ \E m \in Markets, s \in Sizes, l \in Losses : ValidateTrade(m, s, l)
    \/ \E res \in SuccessResults : RecordSuccess(res)
    \/ \E m \in Markets, res \in FillResults \cup {FailureResult} :
            UpdatePosition(m, res)
    \/ ManualReset
    \/ ManualTrip
    \/ \E kwargs \in ConfigUpdates : UpdateConfig(kwargs)

Spec == Init /\ [][Next]_vars

\* Concurrent trade attempts against one breaker.
NextTrade ==
    \/ Tick
    \/ \E a \in Attempts, m \in Markets, s \in Sizes : AttemptValidate(a, m, s)
    \/ \E a \in Attempts : AttemptCommit(a)
    \/ \E a \in Attempts : AttemptFail(a)

SpecTrade == Init /\ [][NextTrade]_vars

-----------------------------------------------------------------------------
(* Actions of the scan engine.  The callbacks are registered recorders     *)
(* that return at once, so a scan runs to its end without suspending.      *)

InstallEng(e) ==
    /\ config' = e.config
    /\ polymarket_prices' = e.polymarket_prices
    /\ limitless_prices' = e.limitless_prices
    /\ asset_mappings' = e.asset_mappings
    /\ opportunities' = e.opportunities
    /\ signals' = e.signals
    /\ alerts' = e.alerts
    /\ total_opportunities_found' = e.total_opportunities_found
    /\ _opportunity_counter' = e._opportunity_counter
    /\ _signal_counter' = e._signal_counter
    /\ _alert_counter' = e._alert_counter

\* The engine after a scan and the callbacks the scan has called.
InstallScan(r) ==
    /\ InstallEng(r.e)
    /\ emitted' = r.ev

UpdatePolymarketPrice(m, y, n) ==
    /\ InstallEng(update_polymarket_price(Eng, now, m, y, n))
    /\ emitted' = <<>>
    /\ since_scan' = "changed"
    /\ UNCHANGED <<envVars, loopVars, notEngine>>

UpdateLimitlessPrice(p, x) ==
    /\ InstallEng(update_limitless_price(Eng, now, p, x))
    /\ emitted' = <<>>
    /\ since_scan' = "changed"
    /\ UNCHANGED <<envVars, loopVars, notEngine>>

AddAssetMapping(m, p) ==
    /\ asset_mappings[m] # Some(p)
    /\ InstallEng(add_asset_mapping(Eng, m, p))
    /\ emitted' = <<>>
    /\ since_scan' = "changed"
    /\ UNCHANGED <<envVars, loopVars, notEngine>>

\* acknowledge_alert(alert_id): the first alert with that id is marked, an
\* unknown id changes nothing.
acknowledge_alert(e, alert_id) ==
    LET hits == {i \in 1..Len(e.alerts) : e.alerts[i].id = alert_id}
    IN  IF hits = {} THEN e
        ELSE LET first == CHOOSE i \in hits : \A j \in hits : i <= j
             IN  [e EXCEPT !.alerts[first].acknowledged = TRUE]

\* The ids a caller may name: that of the first alert raised, and one that
\* no alert carries.
AlertIds == {0, 1}

AcknowledgeAlert(alert_id) ==
    /\ InstallEng(acknowledge_alert(Eng, alert_id))
    /\ emitted' = <<>>
    /\ UNCHANGED <<since_scan, envVars, loopVars, notEngine>>

Scan ==
    /\ _opportunity_counter < MaxOpportunities
    /\ InstallScan(scan_for_opportunities(Eng, now))
    /\ since_scan' = "unchanged"
    /\ UNCHANGED <<envVars, loopVars, notEngine>>

InitScan ==
    /\ InitBreaker
    /\ \E mp \in MinProfits : InitEngine(ArbitrageConfig(mp))
    /\ InitWs
    /\ InitL2(L2OrderBook(<<>>, <<>>), L2OrderBook(<<>>, <<>>), 1, "around")

NextScan ==
    \/ Tick
    \/ \E m \in PolyMarkets, q \in Quotes :
            UpdatePolymarketPrice(m, q[1], q[2])
    \/ \E p \in Pools, x \in LimitlessPrices : UpdateLimitlessPrice(p, x)
    \/ \E m \in PolyMarkets, p \in Pools : AddAssetMapping(m, p)
    \/ \E a \in AlertIds : AcknowledgeAlert(a)
    \/ Scan

SpecScan == InitScan /\ [][NextScan]_vars

-----------------------------------------------------------------------------
(* The risk gate's claims.  The limit checks are restated here from the    *)
(* breaker's fields, independently of validate_trade.                       *)

Held(m) == IF positions[m] = None THEN 0 ELSE positions[m][1].quantity
HeldTotal == Held("m1") + Held("m2")

DailyLossViolated(l) == daily_metrics.total_pnl_usd - l < -breaker_config.max_daily_loss_usd
PerTradeViolated(l) == l > breaker_config.max_loss_per_trade_usd
MarketViolated(m, s) == Held(m) + s > breaker_config.max_position_per_market
TotalViolated(s) == HeldTotal + s > breaker_config.max_total_position

CooldownElapsed == trip_time # None /\ now - trip_time[1] > breaker_config.error_cooldown_ms

\* What the claim C1 expects a call validate_trade(m, s, l) to answer, open
\* being the answer of can_trade().
C1_Outcome(open, m, s, l) ==
    LET D == DailyLossViolated(l)
        P == PerTradeViolated(l)
        M == MarketViolated(m, s)
        T == TotalViolated(s)
    IN  /\ last'.ok <=> (open /\ ~D /\ ~P /\ ~M /\ ~T)
        /\ ~open => last'.reason = "breaker"
        /\ (open /\ D) => last'.reason = "daily_loss"
        /\ (open /\ ~D /\ P) => last'.reason = "per_trade_loss"
        /\ (open /\ ~D /\ ~P /\ M) => last'.reason = "market_position"
        /\ (open /\ ~D /\ ~P /\ ~M /\ T) => last'.reason = "total_position"

\* C1: validate_trade approves exactly when can_trade() holds and none of
\* the four limit checks is violated, and a rejection names the first
\* violated check in the order daily loss, per-trade loss, per-market
\* position, total position.
C1_FirstViolatedCheckWins ==
    [][last'.op = "validate_trade" =>
       LET open == can_trade(This, now).ret
       IN  \A m \in Markets, s \in Sizes, l \in Losses :
              ~C1_Outcome(open, m, s, l) => ~ValidateTrade(m, s, l)]_vars

\* A rejection for the per-market cap while the total cap is exhausted too:
\* two checks are violated and the earlier one is reported.
C1_Witness ==
    /\ last.op = "validate_trade"
    /\ ~last.ok
    /\ last.reason = "market_position"
    /\ HeldTotal >= breaker_config.max_total_position

\* C2 as stated: validate_trade changes the breaker exactly when the
\* daily-loss check fails, and a rejection by the per-trade, per-market or
\* total cap leaves every field of the breaker unchanged.
C2_ChangesOnlyOnDailyLoss ==
    [][last'.op = "validate_trade" =>
       \A m \in Markets, s \in Sizes, l \in Losses :
        ValidateTrade(m, s, l) =>
            LET fails == can_trade(This, now).ret /\ DailyLossViolated(l)
            IN  /\ (cbVars' # cbVars) <=> fails
                /\ fails => (state \in {CLOSED, HALF_OPEN} /\ state' = OPEN
                             /\ ~last'.ok)
                /\ last'.reason \in {"per_trade_loss", "market_position",
                                     "total_position"}
                        => UNCHANGED cbVars
    ]_vars

\* What the amended claim C2 expects of a call with estimated loss l, rd
\* being the outcome of the can_trade() read.
C2_Effect(rd, l) ==
    LET fails == rd.ret /\ DailyLossViolated(l)
    IN  /\ fails =>
            /\ rd.b.state \in {CLOSED, HALF_OPEN}
            /\ state' = OPEN
            /\ trip_time' = Some(now)
            /\ ~last'.ok
            /\ ~can_trade(This', now').ret
            /\ error_count' = rd.b.error_count
            /\ daily_metrics' = rd.b.daily_metrics
            /\ positions' = rd.b.positions
        /\ ~fails => This' = rd.b

\* C2 amended: apart from the lazy transition of its initial can_trade()
\* read, validate_trade changes the breaker exactly when the daily-loss
\* check fails; it then opens the breaker at the current time, rejects, and
\* can_trade() is false; every other outcome leaves the breaker as the read
\* left it.
C2_ChangesOnlyOnDailyLossAfterRead ==
    [][last'.op = "validate_trade" =>
       LET rd == can_trade(This, now)
       IN  \A m \in Markets, s \in Sizes, l \in Losses :
              ~C2_Effect(rd, l) => ~ValidateTrade(m, s, l)]_vars

\* A cap rejection issued by a breaker that its own read had just moved
\* from OPEN to HALF_OPEN.
C2_Witness ==
    /\ last.op = "validate_trade"
    /\ last.reason = "per_trade_loss"
    /\ state = HALF_OPEN
    /\ trip_time # None
    /\ error_count >= 1

\* C3: after a daily-loss trip from CLOSED with a live error counter of 0
\* and the daily P&L above the loss limit, the first get_state() past the
\* cooldown answers HALF_OPEN and the next get_state() answers CLOSED, with
\* no success report and no manual reset in between.
C3_RoundTripClosesByItself ==
    [][/\ (phase = 1 /\ CooldownElapsed /\ GetState) => state' = HALF_OPEN
       /\ (phase = 2 /\ GetState) => state' = CLOSED
    ]_vars

\* C4: starting from a live error counter of 0, the k-th failure reported
\* back to back trips the breaker exactly when k reaches
\* max_consecutive_errors and fewer leave state and trip time alone; a
\* record_success resets the live error counter to 0.
C4_TripsAtMaxConsecutiveErrors ==
    [][/\ (streak # None
            /\ \E m \in Markets : UpdatePosition(m, FailureResult))
            => /\ error_count' = streak[1] + 1
               /\ IF streak[1] + 1 >= breaker_config.max_consecutive_errors
                  THEN state' = OPEN /\ trip_time' = Some(now)
                  ELSE state' = state /\ trip_time' = trip_time
       /\ \A res \in SuccessResults : RecordSuccess(res) => error_count' = 0
    ]_vars

\* The failure that completes a streak of exactly max_consecutive_errors.
C4_Witness ==
    /\ last.op = "update_position"
    /\ ~last.ok
    /\ streak = Some(breaker_config.max_consecutive_errors)
    /\ state = OPEN
    /\ trip_time = Some(now)

\* C6 as stated: a failure reported while HALF_OPEN returns the breaker to
\* OPEN.
C6_HalfOpenFailureReopens ==
    [][(state = HALF_OPEN
        /\ \E m \in Markets : UpdatePosition(m, FailureResult))
        => state' = OPEN]_vars

\* C6 amended: a failure reported while HALF_OPEN returns the breaker to
\* OPEN exactly when it brings the live error counter to
\* max_consecutive_errors; otherwise the breaker stays HALF_OPEN.
C6_HalfOpenFailureReopensAtLimit ==
    [][(state = HALF_OPEN
        /\ \E m \in Markets : UpdatePosition(m, FailureResult)) =>
            /\ error_count' = error_count + 1
            /\ IF error_count + 1 >= breaker_config.max_consecutive_errors
               THEN state' = OPEN /\ trip_time' = Some(now)
               ELSE state' = HALF_OPEN /\ trip_time' = trip_time
    ]_vars

\* A failure reported while HALF_OPEN that did reopen the breaker.
C6_Witness ==
    /\ last.op = "update_position"
    /\ ~last.ok
    /\ last.from = HALF_OPEN
    /\ state = OPEN
    /\ error_count = breaker_config.max_consecutive_errors

\* C7: while the breaker is OPEN and the cooldown has not elapsed,
\* validate_trade rejects whatever the arguments, as a returned result, and
\* changes no field of the breaker.
C7_FailsClosed ==
    [][(/\ last'.op = "validate_trade"
        /\ state = OPEN /\ trip_time # None /\ ~CooldownElapsed
        /\ \E m \in Markets, s \in Sizes, l \in Losses :
                ValidateTrade(m, s, l))
        => (~last'.ok /\ last'.reason = "breaker" /\ UNCHANGED cbVars)]_vars

\* A rejection by the open breaker of a trade no limit check would stop.
C7_Witness ==
    /\ last.op = "validate_trade"
    /\ last.reason = "breaker"
    /\ state = OPEN
    /\ ~CooldownElapsed
    /\ HeldTotal = 0
    /\ daily_metrics.total_pnl_usd = 0

\* C5: under any interleaving of concurrent attempts, the committed
\* position of a market stays within max_position_per_market, the total
\* within max_total_position, and no two attempts on one market are both
\* approved against the same snapshot of its position for sizes that
\* together exceed the cap.
C5_NoStaleDoubleApproval ==
    /\ \A m \in Markets : Held(m) <= breaker_config.max_position_per_market
    /\ HeldTotal <= breaker_config.max_total_position
    /\ \A a, b \in Attempts :
            (/\ a # b
             /\ attempts[a].pc = "approved"
             /\ attempts[b].pc = "approved"
             /\ attempts[a].market = attempts[b].market
             /\ attempts[a].seen = attempts[b].seen)
            => attempts[a].seen + attempts[a].size + attempts[b].size
                    <= breaker_config.max_position_per_market

-----------------------------------------------------------------------------
(* The scan engine's claims.  What one scan added is read off the engine's *)
(* fields before and after it, independently of scan_for_opportunities.    *)

\* The key of the opportunities dict, and the key the specification names
\* (strategy and market).
Ids(opps) == {o.id : o \in opps}
StrategyKey(o) == <<o.id[1], o.id[2]>>

\* The positions of seq' that were appended to seq.
AppendedTo(before, after) == (Len(before) + 1)..Len(after)
Extends(before, after) ==
    /\ Len(after) >= Len(before)
    /\ SubSeq(after, 1, Len(before)) = before

NewIds == Ids(opportunities') \ Ids(opportunities)
OppOf(id) == CHOOSE o \in opportunities' : o.id = id
IsHighSpread(o) == float_ge(o.spread_pct, config.high_spread_threshold_pct)
SpreadMoved(o1, o2) ==
    float_gt(float_abs(float_sub(o2.spread_pct, o1.spread_pct)),
             float_of(spread_update_delta_pct, 100))
SignalsFor(id) ==
    {i \in AppendedTo(signals, signals') : signals'[i].opportunity_id = id}
AlertsFor(id) ==
    {i \in AppendedTo(alerts, alerts') : alerts'[i].opportunity_id = id}
EmittedFor(id) == {i \in 1..Len(emitted') : emitted'[i].id = id}

\* C8: a scan over a cache that was not written since the previous scan
\* finds the same opportunity keys, appends no signal and no alert, and
\* leaves total_opportunities_found alone.
C8_RescanAddsNothing ==
    [][(since_scan = "unchanged" /\ Scan)
        => /\ Ids(opportunities') = Ids(opportunities)
           /\ signals' = signals
           /\ alerts' = alerts
           /\ total_opportunities_found' = total_opportunities_found]_vars

\* What one scan does for the keys that were not in the opportunities map.
C9_Effect ==
    /\ total_opportunities_found'
         = total_opportunities_found + Cardinality(NewIds)
    /\ Extends(signals, signals')
    /\ Extends(alerts, alerts')
    /\ Len(signals') = Len(signals) + Cardinality(NewIds)
    /\ Len(alerts') = Len(alerts)
         + Cardinality({id \in NewIds : IsHighSpread(OppOf(id))})
    /\ \A id \in NewIds :
         /\ Cardinality(SignalsFor(id)) = 1
         /\ Cardinality(AlertsFor(id))
              = IF IsHighSpread(OppOf(id)) THEN 1 ELSE 0

\* C9: for each opportunity whose key was not in the opportunities map, one
\* scan adds one to total_opportunities_found, appends exactly one signal
\* that references it, and appends exactly one alert if its spread is at
\* least the high-spread threshold and none otherwise.
\* (a step without that effect is no scan).
C9_NewKeyCountsOnce == [][~C9_Effect => ~Scan]_vars

\* One scan has just stored two new opportunities, one at or above the
\* high-spread threshold with its alert, one below it without.
C9_Witness ==
    \E a, b \in opportunities :
        /\ a.id # b.id
        /\ IsHighSpread(a)
        /\ ~IsHighSpread(b)
        /\ \E i, j, k \in 1..Len(emitted) :
              /\ emitted[i] = [cb |-> "on_signal", id |-> a.id]
              /\ emitted[j] = [cb |-> "on_signal", id |-> b.id]
              /\ emitted[k] = [cb |-> "on_alert", id |-> a.id]
        /\ \A i \in 1..Len(emitted) :
              emitted[i] # [cb |-> "on_alert", id |-> b.id]
        /\ \E i \in 1..Len(alerts) : alerts[i].opportunity_id = a.id
        /\ \A i \in 1..Len(alerts) : alerts[i].opportunity_id # b.id

\* C10: when a scan detects again a strategy and market already in the
\* opportunities map, it appends no signal and no alert for it; it calls
\* the opportunity callback, and only that, if the spread moved by more
\* than 0.1 percentage points, and calls nothing otherwise.
C10_RedetectionIsUpdate ==
    [][Scan
        => \A o2 \in opportunities' \ opportunities :
           \A o1 \in opportunities :
              StrategyKey(o1) = StrategyKey(o2)
              => /\ SignalsFor(o2.id) = {}
                 /\ AlertsFor(o2.id) = {}
                 /\ IF SpreadMoved(o1, o2)
                    THEN \A i \in EmittedFor(o2.id) :
                            emitted'[i].cb = "on_opportunity"
                    ELSE EmittedFor(o2.id) = {}
                 /\ SpreadMoved(o1, o2)
                    => EmittedFor(o2.id) # {}]_vars

\* The age of a cached snapshot (None or a record) at the time of the scan.
Fresh(snapshot) ==
    /\ snapshot # None
    /\ now - snapshot[1].updated_at <= config.stale_data_threshold_ms

\* The opportunities a step stores come from snapshots that are present,
\* mapped and fresh.
C11_Effect ==
    \A o \in opportunities' \ opportunities :
        /\ Fresh(polymarket_prices[o.polymarket_market_id])
        /\ o.direction # POLY_INTERNAL
              => /\ o.limitless_pool # None
                 /\ asset_mappings[o.polymarket_market_id]
                       = o.limitless_pool
                 /\ Fresh(limitless_prices[o.limitless_pool[1]])

\* C11: every opportunity a scan produces comes from snapshots whose age is
\* within the staleness threshold: an internal one from a fresh snapshot of
\* its market, a cross-venue one from a mapped pair both of whose snapshots
\* are present and fresh.
\* (a step that stores another opportunity is no scan).
C11_NoOpportunityFromStaleData == [][~C11_Effect => ~Scan]_vars

\* A scan has just stored the internal opportunity of a fresh market and
\* nothing for its mapped pair, whose other venue quotes a different price
\* in a snapshot that is too old.
C11_Witness ==
    \E m \in PolyMarkets, p \in Pools :
        /\ asset_mappings[m] = Some(p)
        /\ Fresh(polymarket_prices[m])
        /\ limitless_prices[p] # None
        /\ ~Fresh(limitless_prices[p])
        /\ limitless_prices[p][1].price > polymarket_prices[m][1].yes_price
        /\ \E i \in 1..Len(emitted) :
              /\ emitted[i].cb = "on_signal"
              /\ emitted[i].id[1] = "poly_internal"
        /\ \A i \in 1..Len(emitted) : emitted[i].id[1] # "cross"
        /\ \E o \in opportunities :
              /\ o.direction = POLY_INTERNAL
              /\ o.discovered_at = now


-----------------------------------------------------------------------------
(* The engine's periodic scan: start() creates a task running _scan_loop,  *)
(* stop() cancels the task the engine remembers.  A task is "created"      *)
(* until the event loop first runs it, "sleeping" while it waits in         *)
(* asyncio.sleep(1), "awaiting" while a callback of its scan is suspended,  *)
(* "cancelling" from the cancel() of stop() until the event loop next runs  *)
(* it, and "done" once its coroutine has returned or been cancelled.  With  *)
(* no callback registered a scan has no suspension point, so one pass of    *)
(* the loop body is one step.                                               *)

MaxTasks == 2

TaskIds == 1..Len(tasks)

Alive(i) == tasks[i] \in {"created", "sleeping"}

AliveLoops == {i \in TaskIds : Alive(i)}

\* Task i is suspended in a callback its scan awaits.
InCallback(i) == tasks[i] = "awaiting"

\* start(): no test of _running or of an earlier task.
EngineStart ==
    /\ Len(tasks) < MaxTasks
    /\ _running' = TRUE
    /\ tasks' = Append(tasks, "created")
    /\ _scan_task' = Some(Len(tasks) + 1)
    /\ tick' = Append(tick, None)
    /\ UNCHANGED <<envVars, engVars, scanObs, notEngine>>

\* The task has a cancellation requested that it has not received yet.
Cancelling(i) == tasks[i] = "cancelling"

\* stop() up to its await: clears the flag and requests the cancellation of
\* the remembered task only; the reference is kept.  What follows the await
\* changes nothing.
EngineStop ==
    /\ _running' = FALSE
    /\ tasks' = IF _scan_task # None /\ tasks[_scan_task[1]] # "done"
                THEN [tasks EXCEPT ![_scan_task[1]] = "cancelling"]
                ELSE tasks
    /\ UNCHANGED <<_scan_task, tick, envVars, engVars, scanObs, notEngine>>

\* The event loop runs task i, whose cancellation was requested: the
\* CancelledError is raised at the point the task waits in.  A task cancelled
\* inside a callback leaves its scan where it stood: _scan_loop catches the
\* CancelledError and breaks.  A task that never ran ends without running.
TaskCancelled(i) ==
    /\ Cancelling(i)
    /\ tasks' = [tasks EXCEPT ![i] = "done"]
    /\ tick' = [tick EXCEPT ![i] = None]
    /\ UNCHANGED <<_running, _scan_task, envVars, engVars, scanObs, notEngine>>

\* One pass of _scan_loop in task i, from the while test to the next sleep.
ScanLoopStep(i) ==
    /\ Alive(i)
    /\ IF _running
       THEN /\ _opportunity_counter < MaxOpportunities
            /\ InstallScan(scan_for_opportunities(Eng, now))
            /\ since_scan' = "unchanged"
            /\ tasks' = [tasks EXCEPT ![i] = "sleeping"]
       ELSE /\ tasks' = [tasks EXCEPT ![i] = "done"]
            /\ UNCHANGED <<engVars, scanObs>>
    /\ UNCHANGED <<_running, _scan_task, tick, envVars, notEngine>>

LoopNoPrices == {500}

NextLoop ==
    \/ Tick
    \/ \E m \in PolyMarkets, y \in YesPrices, n \in LoopNoPrices :
            UpdatePolymarketPrice(m, y, n)
    \/ EngineStart
    \/ EngineStop
    \/ \E i \in TaskIds : TaskCancelled(i)
    \/ \E i \in TaskIds : ScanLoopStep(i)

SpecLoop == InitScan /\ [][NextLoop]_vars

\* C12: under any sequence of start() and stop() calls at most one scan loop
\* is alive at any time.
C12_AtMostOneScanLoop == Cardinality(AliveLoops) <= 1


-----------------------------------------------------------------------------
(* WebSocketManager: source connections.  Each action is the code between  *)
(* two suspension points of one coroutine; the environment decides whether  *)
(* a connect succeeds, when a message arrives and when a transport fails.   *)

\* what the steps of the manager's tasks leave alone
others == <<cbVars, envVars, obsVars, attempts, engVars, scanObs, loopVars,
            l2Vars, detection>>
notWs == <<others, inbound, callVars>>

\* A new step begins: the statuses assigned during the previous one are
\* forgotten.
RECURSIVE ClearTrails(_)
ClearTrails(cs) ==
    IF cs = <<>> THEN <<>>
    ELSE <<[Head(cs) EXCEPT !.trail = <<>>]>> \o ClearTrails(Tail(cs))

\* conn.status = st
SetStatus(cs, c, st) ==
    [cs EXCEPT ![c] = [@ EXCEPT !.status = st, !.trail = Append(@, st)]]

\* The task's coroutine has returned or was cancelled: its locals are gone.
Returned(lp) == [LoopTask(lp.name) EXCEPT !.pc = "done"]

\* The task is in _connect_with_retry, outside _receive_messages.
Awaiting(lp, pc) == [LoopTask(lp.name) EXCEPT !.pc = pc, !.conn = lp.conn]

Suspended(lp) ==
    lp.pc \in {"created", "connecting", "receiving", "handling", "sleeping"}

\* task.cancel(): the cancellation is requested; the task ends when the
\* event loop runs it next, at the suspension point it waits in.
Cancelled(ls, task) ==
    IF task # None /\ ls[task[1]].pc # "done"
    THEN [ls EXCEPT ![task[1]] = [LoopTask(@.name) EXCEPT !.pc = "cancelling"]]
    ELSE ls

\* conn.websocket.close() is called: the transport delivers nothing more.
Closing(ts, ws) == IF ws # None THEN [ts EXCEPT ![ws[1]].open = FALSE] ELSE ts

\* _close_connection(conn) after its close() has returned, or the whole of
\* it when the connection holds no transport.
_close_connection(cs, c) ==
    SetStatus([cs EXCEPT ![c].websocket = None], c, DISCONNECTED)

\* _connect_with_retry from its while test to the await of websockets.connect,
\* or to its return.
loop_head(cs, ls, l) ==
    LET c == ls[l].conn[1]
    IN  IF ws_running /\ cs[c].reconnect_attempts < max_reconnect_attempts
        THEN [conns |-> SetStatus([cs EXCEPT ![c].attempted = TRUE],
                                  c, CONNECTING),
              loops |-> [ls EXCEPT ![l] = Awaiting(@, "connecting")]]
        ELSE [conns |-> IF cs[c].reconnect_attempts >= max_reconnect_attempts
                        THEN SetStatus(cs, c, DISCONNECTED)
                        ELSE cs,
              loops |-> [ls EXCEPT ![l] = Returned(@)]]

LoopIds == 1..Len(loops)

\* The names in source_connections
Registered == {n \in Names : source_connections[n] # None}

\* add_source_connection(name, url, message_handler, auto_connect=True).  A
\* call made while the lock is held waits for it.
AddSourceConnection(name, handler) ==
    /\ _lock = None
    /\ Len(loops) < MaxLoops
    /\ conns' = Append(conns, ConnectionInfo(name))
    /\ source_connections' =
            [source_connections EXCEPT ![name] = Some(Len(conns) + 1)]
    /\ message_handlers' =
            IF handler THEN [message_handlers EXCEPT ![name] = TRUE]
            ELSE message_handlers
    /\ loops' = Append(loops, LoopTask(name))
    /\ _tasks' = [_tasks EXCEPT !.connect[name] = Some(Len(loops) + 1)]
    /\ UNCHANGED <<ws_running, _broadcast_queue, put_count, transports,
                   bcVars, notWs>>

\* remove_source_connection(name) from the point where the connection is
\* closed: the entries are deleted and the task of the name is cancelled.
Unregister(cs, name) ==
    /\ conns' = cs
    /\ source_connections' = [source_connections EXCEPT ![name] = None]
    /\ message_handlers' = [message_handlers EXCEPT ![name] = FALSE]
    /\ loops' = Cancelled(loops, _tasks.connect[name])
    /\ _tasks' = [_tasks EXCEPT !.connect[name] = None]
    /\ stopping' = IF /\ stopping # None
                      /\ stopping[1].pc = "source"
                      /\ source_connections[name] # None
                   THEN Some([stopping[1] EXCEPT !.changed = TRUE])
                   ELSE stopping

\* remove_source_connection(name) up to the close() of the transport, where
\* it waits holding the lock, or to its end when there is none to close.
RemoveSourceConnection(name) ==
    /\ _lock = None
    /\ LET c == source_connections[name]
       IN  IF c # None /\ conns[c[1]].websocket # None
           THEN /\ transports' = Closing(transports, conns[c[1]].websocket)
                /\ _lock' = Some([name |-> name, conn |-> c[1]])
                /\ UNCHANGED <<conns, source_connections, message_handlers,
                               loops, _tasks, stopping>>
           ELSE /\ Unregister(IF c # None
                              THEN _close_connection(ClearTrails(conns), c[1])
                              ELSE conns, name)
                /\ UNCHANGED <<transports, _lock>>
    /\ UNCHANGED <<ws_running, _broadcast_queue, put_count, bcVars, inbound,
                   others>>

\* The close() that remove_source_connection waits in returns: the rest of
\* the call, and the lock is released.
RemoveCloseReturns ==
    /\ _lock # None
    /\ Unregister(_close_connection(ClearTrails(conns), _lock[1].conn),
                  _lock[1].name)
    /\ _lock' = None
    /\ UNCHANGED <<ws_running, _broadcast_queue, put_count, transports,
                   bcVars, inbound, others>>

\* The event loop runs task l, whose cancellation was requested.
LoopCancelled(l) ==
    /\ loops[l].pc = "cancelling"
    /\ loops' = [loops EXCEPT ![l] = Returned(@)]
    /\ UNCHANGED <<wsShared, source_connections, message_handlers, conns,
                   transports, bcVars, notWs>>

\* _connect_with_retry(name): first run of the task.
LoopStart(l) ==
    /\ loops[l].pc = "created"
    /\ LET c == source_connections[loops[l].name]
       IN  IF c = None
           THEN /\ loops' = [loops EXCEPT ![l] = Returned(@)]
                /\ UNCHANGED conns
           ELSE LET r == loop_head(ClearTrails(conns),
                                   [loops EXCEPT ![l].conn = c], l)
                IN  /\ conns' = r.conns
                    /\ loops' = r.loops
    /\ UNCHANGED <<wsShared, source_connections, message_handlers,
                   transports, bcVars, notWs>>

\* websockets.connect returns: lines 161-172, then _receive_messages up to
\* its async for, or back to the while test when it returns at once.
ConnectSucceeds(l) ==
    /\ loops[l].pc = "connecting"
    /\ Len(transports) < MaxTransports
    /\ LET c == loops[l].conn[1]
           t == Len(transports) + 1
           name == loops[l].name
           cs1 == SetStatus([ClearTrails(conns) EXCEPT
                                ![c].websocket = Some(t),
                                ![c].reconnect_attempts = 0,
                                ![c].failed = 0,
                                ![c].reconnect_delay = reconnect_delay],
                            c, CONNECTED)
           rc == source_connections[name]
       IN  /\ transports' = Append(transports, [name |-> name, open |-> TRUE])
           /\ IF rc = None \/ cs1[rc[1]].websocket = None
              THEN LET r == loop_head(cs1, loops, l)
                   IN  /\ conns' = r.conns
                       /\ loops' = r.loops
              ELSE /\ conns' = cs1
                   /\ loops' = [loops EXCEPT ![l].pc = "receiving",
                                             ![l].rconn = rc,
                                             ![l].rt = cs1[rc[1]].websocket]
    /\ UNCHANGED <<wsShared, source_connections, message_handlers,
                   bcVars, notWs>>

\* websockets.connect raises: lines 174-192, up to asyncio.sleep(delay).
ConnectFails(l) ==
    /\ loops[l].pc = "connecting"
    /\ LET c == loops[l].conn[1]
           cs1 == SetStatus(ClearTrails(conns), c, ERROR)
           cs2 == [cs1 EXCEPT ![c].reconnect_attempts = @ + 1,
                              ![c].failed = @ + 1]
       IN  /\ conns' = SetStatus(cs2, c, RECONNECTING)
           /\ loops' = [loops EXCEPT ![l].pc = "sleeping",
                                     ![l].delay = backoff_delay(cs2[c])]
    /\ UNCHANGED <<wsShared, source_connections, message_handlers,
                   transports, bcVars, notWs>>

\* asyncio.sleep(delay) returns.
SleepEnds(l) ==
    /\ loops[l].pc = "sleeping"
    /\ LET r == loop_head(ClearTrails(conns), loops, l)
       IN  /\ conns' = r.conns
           /\ loops' = r.loops
    /\ UNCHANGED <<wsShared, source_connections, message_handlers,
                   transports, bcVars, notWs>>

BroadcastMessage(name, n) == [source |-> name, data |-> n]

\* An inbound message by what happens to it: payload tells whether
\* json.loads(message) succeeds, handler what the registered handler does
\* with the parsed data.
Inbound(payload, handler) == [payload |-> payload, handler |-> handler]

\* A message that parses and that the handler turns into a truthy value.
GoodMessage == Inbound("json", "value")

InboundMessages ==
    {Inbound("not_json", "not_called")}
        \cup {Inbound("json", h) : h \in {"value", "falsy", "raises"}}

\* The body of the async for without its inner try: an exception leaves it
process_message_unprotected(msg, registered) ==
    IF msg.payload = "not_json" THEN "raised"
    ELSE IF ~registered THEN "skipped"
    ELSE IF msg.handler = "raises" THEN "raised"
    ELSE IF msg.handler = "value" THEN "queued"
    ELSE "skipped"

\* The body of the async for: "queued" when the message reaches
\* _broadcast_queue.put, "skipped" when it does not, "raised" when an
\* exception leaves the body (none does: json.JSONDecodeError and Exception
\* are both caught inside).
process_message(msg, registered) ==
    IF msg.payload = "not_json" THEN "skipped"
    ELSE IF ~registered THEN "skipped"
    ELSE IF msg.handler = "raises" THEN "skipped"
    ELSE IF msg.handler = "value" THEN "queued"
    ELSE "skipped"

\* The outer handler of _receive_messages (lines 230-238), then back in
\* _connect_with_retry: the connection is marked DISCONNECTED and, while the
\* manager runs, a new connect task is created under the name's key.
ReceiveRaises(l) ==
    /\ Len(loops) < MaxLoops
    /\ LET name == loops[l].name
           cs1 == SetStatus(ClearTrails(conns), loops[l].rconn[1],
                            DISCONNECTED)
           ls1 == IF ws_running THEN Append(loops, LoopTask(name)) ELSE loops
           r == loop_head(cs1, ls1, l)
       IN  /\ conns' = r.conns
           /\ loops' = r.loops
           /\ _tasks' = IF ws_running
                        THEN [_tasks EXCEPT
                                !.connect[name] = Some(Len(loops) + 1)]
                        ELSE _tasks

\* Loops waiting in the handler of a message that will be queued
InFlight ==
    Cardinality({l \in LoopIds : /\ loops[l].pc = "handling"
                                 /\ loops[l].message[1].handler = "value"})

\* _receive_messages: the async for yields msg.  The body runs to the await of
\* the handler, or to its end when the message does not parse or the name
\* has no handler.
MessageArrives(l, msg) ==
    /\ loops[l].pc = "receiving"
    /\ transports[loops[l].rt[1]].open
    /\ inbound.count < MaxReceived
    /\ msg.handler = "value" => put_count + InFlight < MaxMessages
    /\ inbound' = [count |-> inbound.count + 1, latest |-> Some(msg)]
    /\ LET registered == message_handlers[loops[l].name]
       IN  IF msg.payload = "json" /\ registered
           THEN /\ loops' = [loops EXCEPT ![l].pc = "handling",
                                          ![l].message = Some(msg)]
                /\ UNCHANGED <<conns, _tasks>>
           ELSE IF process_message(msg, registered) = "raised"
           THEN ReceiveRaises(l)
           ELSE UNCHANGED <<conns, loops, _tasks>>
    /\ UNCHANGED <<ws_running, _broadcast_queue, put_count,
                   source_connections, message_handlers, transports, bcVars,
                   callVars, others>>

\* The handler the loop waits in returns or raises: the rest of the body, up
\* to the async for.  The name under which the result is queued is the
\* loop's own, whatever has become of its registration.
HandlerReturns(l) ==
    /\ loops[l].pc = "handling"
    /\ LET outcome == process_message(loops[l].message[1], TRUE)
       IN  IF outcome = "raised"
           THEN /\ ReceiveRaises(l)
                /\ UNCHANGED <<_broadcast_queue, put_count>>
           ELSE /\ loops' = [loops EXCEPT ![l].pc = "receiving",
                                          ![l].message = None]
                /\ _broadcast_queue' =
                      IF outcome = "queued"
                      THEN Append(_broadcast_queue,
                                  BroadcastMessage(loops[l].name,
                                                   put_count + 1))
                      ELSE _broadcast_queue
                /\ put_count' = IF outcome = "queued" THEN put_count + 1
                                ELSE put_count
                /\ UNCHANGED <<conns, _tasks>>
    /\ UNCHANGED <<ws_running, source_connections, message_handlers,
                   transports, bcVars, notWs>>

\* The async for raises: lines 230-238, then back in _connect_with_retry.
TransportFails(l) ==
    /\ loops[l].pc = "receiving"
    /\ transports[loops[l].rt[1]].open
    /\ transports' = [transports EXCEPT ![loops[l].rt[1]].open = FALSE]
    /\ ReceiveRaises(l)
    /\ UNCHANGED <<ws_running, _broadcast_queue, put_count,
                   source_connections, message_handlers, bcVars, notWs>>

\* The async for ends without an exception (the transport was closed
\* normally, by the peer or by a close() of the manager).
ReceiveEnds(l) ==
    /\ loops[l].pc = "receiving"
    /\ transports' = [transports EXCEPT ![loops[l].rt[1]].open = FALSE]
    /\ LET r == loop_head(ClearTrails(conns), loops, l)
       IN  /\ conns' = r.conns
           /\ loops' = r.loops
    /\ UNCHANGED <<wsShared, source_connections, message_handlers,
                   bcVars, notWs>>

WorkerIds == 1..Len(workers)

\* A task running _broadcast_worker: "created" until the event loop runs it
\* first, "waiting" in wait_for(queue.get()), "timed_out" once the timer of
\* wait_for has fired and the task has not resumed, "taken" once the
\* message is off the queue and the task has not resumed, "sending" in the
\* send_json of sink cur, "cancelling" once its cancellation is requested
\* and it has not resumed, "cancelling_get" when the cancellation was
\* requested in a wait_for whose queue.get() has still to run.  message is the one being fanned out; snapshot
\* and size are the sink set and its size when the for loop began, visited
\* the sinks the loop has reached, disconnected the local set of failed
\* sinks, stayed the sinks of snapshot that no remove_client has taken out
\* since.  direct marks a caller of broadcast_to_clients that is no worker
\* task.
WorkerTask ==
    [pc |-> "created", message |-> None, cur |-> None, snapshot |-> {},
     visited |-> {}, size |-> 0, disconnected |-> {}, stayed |-> {},
     direct |-> FALSE]

\* The worker tasks among workers
WorkerTasks == {w \in WorkerIds : ~workers[w].direct}

\* start()
WsStart ==
    /\ Cardinality(WorkerTasks) < MaxWorkers
    /\ ws_running' = TRUE
    /\ workers' = Append(workers, WorkerTask)
    /\ _tasks' = [_tasks EXCEPT !.broadcast = Some(Len(workers) + 1)]
    /\ UNCHANGED <<_broadcast_queue, put_count, srcVars, client_connections,
                   delivered, adding, notWs>>

\* The stop() call in progress: "source" while it waits in the close() of
\* connection conn, with todo the names its for statement has not reached,
\* size the number of names when the statement began and changed telling
\* whether a name was deleted since; "clients" while it waits in the close()
\* of a client, with todo the clients of the copy still to close.
StopCall(pc, conn, todo, size) ==
    [pc |-> pc, conn |-> conn, todo |-> todo, size |-> size,
     changed |-> FALSE]

\* stop(), first loop: the connections of the names in todo are closed, up
\* to the first close() that waits.
RECURSIVE close_sources(_, _, _)
close_sources(cs, ts, todo) ==
    IF todo = {} THEN [conns |-> cs, transports |-> ts, at |-> None,
                       todo |-> {}]
    ELSE LET n == CHOOSE x \in todo : TRUE
             c == source_connections[n][1]
         IN  IF cs[c].websocket # None
             THEN [conns |-> cs, transports |-> Closing(ts, cs[c].websocket),
                   at |-> Some(c), todo |-> todo \ {n}]
             ELSE close_sources(_close_connection(cs, c), ts, todo \ {n})

RECURSIVE CancelAll(_, _)
CancelAll(ls, names) ==
    IF names = {} THEN ls
    ELSE LET n == CHOOSE x \in names : TRUE
         IN  CancelAll(Cancelled(ls, _tasks.connect[n]), names \ {n})

\* The workers after the cancellation of worker w was requested, the
\* worker being left in pc.
cancel_requested(ws, w, pc) ==
    [ws EXCEPT ![w] = [WorkerTask EXCEPT !.pc = pc]]

\* task.cancel() on the broadcast worker.  A task that has ended, or whose
\* cancellation is requested already, is left as it is.  A worker whose
\* message is off the queue ("taken") gets the CancelledError in wait_for,
\* which finds queue.get() done and returns the message: the cancellation
\* is lost.  With a message on the queue and the worker waiting, wait_for
\* of CPython 3.11 loses the cancellation in the same way (queue.get() runs
\* in a task of its own, which is scheduled before the cancellation
\* arrives), wait_for of 3.12 awaits queue.get() in the worker itself and
\* lets the cancellation through; the repository names no interpreter
\* version.  With the queue empty the worker waits in a wait_for whose
\* queue.get() waits for a message, and the cancellation ends both, or in
\* a wait_for of 3.11 it has just entered, whose queue.get() is a task that
\* has not run yet and runs before the worker does.
CancelWorker(ws) ==
    IF _tasks.broadcast = None THEN {ws}
    ELSE LET w == _tasks.broadcast[1]
         IN  IF ws[w].pc \in {"done", "taken", "cancelling",
                              "cancelling_get"}
             THEN {ws}
             ELSE IF ws[w].pc # "waiting"
             THEN {cancel_requested(ws, w, "cancelling")}
             ELSE IF _broadcast_queue # <<>>
             THEN {ws, cancel_requested(ws, w, "cancelling")}
             ELSE {cancel_requested(ws, w, "cancelling"),
                   cancel_requested(ws, w, "cancelling_get")}

\* stop(), last loop: every task in _tasks is cancelled.
CancelTasks ==
    /\ loops' = CancelAll(loops, Names)
    /\ workers' \in CancelWorker(workers)

\* stop() from its first for statement on, cs and ts being the connections
\* and the transports so far: the remaining sources, then the clients, whose
\* close() is awaited, then the tasks.  The copy of the client set is
\* iterated in the order of the set, which is any order.
StopGoesOn(cs, ts, todo, size) ==
    LET r == close_sources(cs, ts, todo)
    IN  /\ conns' = r.conns
        /\ transports' = r.transports
        /\ IF r.at # None
           THEN /\ stopping' = Some(StopCall("source", r.at, r.todo, size))
                /\ UNCHANGED <<loops, workers>>
           ELSE IF client_connections # {}
           THEN /\ \E c \in client_connections :
                     stopping' =
                        Some(StopCall("clients", None,
                                      client_connections \ {c}, size))
                /\ UNCHANGED <<loops, workers>>
           ELSE /\ stopping' = None
                /\ CancelTasks

\* stop() up to the first close() it waits in, or to its end.  The method
\* tests nothing: it runs on a manager that was never started or was
\* stopped before.  One call is in progress at a time.
WsStop ==
    /\ stopping = None
    /\ ws_running' = FALSE
    /\ StopGoesOn(ClearTrails(conns), transports, Registered,
                  Cardinality(Registered))
    /\ UNCHANGED <<_tasks, _broadcast_queue, put_count, source_connections,
                   message_handlers, client_connections, delivered, adding,
                   inbound, _lock, others>>

\* The close() of a source connection that stop() waits in returns.  The for
\* statement then asks the dictionary for the next item, which raises
\* RuntimeError when a name was deleted meanwhile (the size has changed, or
\* the name was added again and its new entry lies beyond the items the
\* iterator had to yield): stop() ends there, with no task cancelled.
StopCloseReturns ==
    /\ stopping # None
    /\ stopping[1].pc = "source"
    /\ LET k == stopping[1]
           cs1 == _close_connection(ClearTrails(conns), k.conn[1])
       IN  IF Cardinality(Registered) # k.size \/ k.changed
           THEN /\ conns' = cs1
                /\ stopping' = None
                /\ UNCHANGED <<transports, loops, workers>>
           ELSE StopGoesOn(cs1, transports, k.todo \cap Registered, k.size)
    /\ UNCHANGED <<wsShared, source_connections, message_handlers,
                   client_connections, delivered, adding, inbound, _lock,
                   others>>

\* The close() of a client that stop() waits in returns: the next client
\* of the copy is closed, or the tasks are cancelled.
StopClientClosed ==
    /\ stopping # None
    /\ stopping[1].pc = "clients"
    /\ IF stopping[1].todo # {}
       THEN /\ \E c \in stopping[1].todo :
                  stopping' = Some([stopping[1] EXCEPT !.todo = @ \ {c}])
            /\ UNCHANGED <<loops, workers>>
       ELSE /\ stopping' = None
            /\ CancelTasks
    /\ UNCHANGED <<wsShared, source_connections, message_handlers, conns,
                   transports, client_connections, delivered, adding,
                   inbound, _lock, others>>

\* _broadcast_worker back at its while test.  A direct call of
\* broadcast_to_clients returns to its caller instead.
worker_head(wk) ==
    [WorkerTask EXCEPT !.pc = IF wk.direct \/ ~ws_running THEN "done"
                              ELSE "waiting",
                       !.direct = wk.direct]

\* The event loop runs worker w for the first time: the while test, then
\* wait_for(queue.get()).
WorkerStart(w) ==
    /\ workers[w].pc = "created"
    /\ workers' = [workers EXCEPT ![w] = worker_head(@)]
    /\ UNCHANGED <<wsShared, srcVars, client_connections, delivered, adding,
                   notWs>>

\* The event loop runs worker w, whose cancellation was requested.
WorkerCancelled(w) ==
    /\ workers[w].pc = "cancelling"
    /\ workers' = [workers EXCEPT ![w].pc = "done"]
    /\ UNCHANGED <<wsShared, srcVars, client_connections, delivered, adding,
                   notWs>>

\* The timer of wait_for(queue.get(), timeout=1.0) fires while queue.get()
\* waits on the empty queue.  The worker is to resume with a TimeoutError;
\* a message put from now on stays on the queue, queue.get() being
\* cancelled before it takes one.
WorkerTimeout(w) ==
    /\ workers[w].pc = "waiting"
    /\ _broadcast_queue = <<>>
    /\ workers' = [workers EXCEPT ![w].pc = "timed_out"]
    /\ UNCHANGED <<wsShared, srcVars, client_connections, delivered, adding,
                   notWs>>

\* The queue.get() of a worker whose cancellation was requested as it
\* entered wait_for runs on the empty queue, and waits: the worker, which
\* runs next, is cancelled, and a message put from now on stays on the
\* queue.
QueueGetWaits(w) ==
    /\ workers[w].pc = "cancelling_get"
    /\ _broadcast_queue = <<>>
    /\ workers' = [workers EXCEPT ![w].pc = "cancelling"]
    /\ UNCHANGED <<wsShared, srcVars, client_connections, delivered, adding,
                   notWs>>

\* The event loop runs worker w after the timeout: except TimeoutError,
\* continue, and the while test, which ends the worker once _running is
\* cleared and sends it back to wait_for otherwise.
WorkerContinues(w) ==
    /\ workers[w].pc = "timed_out"
    /\ workers' = [workers EXCEPT ![w] = worker_head(@)]
    /\ UNCHANGED <<wsShared, srcVars, client_connections, delivered, adding,
                   notWs>>

\* start() is called once, as the application's lifespan does
\* (main.py:50), and the broadcast queue is not drained.
NextSource ==
    \/ Len(workers) = 0 /\ WsStart
    \/ WsStop
    \/ \E n \in Names, h \in Handlers : AddSourceConnection(n, h)
    \/ \E n \in Names : RemoveSourceConnection(n)
    \/ RemoveCloseReturns
    \/ \E l \in LoopIds : LoopStart(l)
    \/ \E l \in LoopIds : LoopCancelled(l)
    \/ \E l \in LoopIds : ConnectSucceeds(l)
    \/ \E l \in LoopIds : ConnectFails(l)
    \/ \E l \in LoopIds : SleepEnds(l)
    \/ \E l \in LoopIds : _broadcast_queue = <<>> /\ MessageArrives(l, GoodMessage)
    \/ \E l \in LoopIds : HandlerReturns(l)
    \/ \E l \in LoopIds : TransportFails(l)
    \/ \E l \in LoopIds : ReceiveEnds(l)
    \/ StopCloseReturns
    \/ \E w \in WorkerIds : WorkerStart(w)
    \/ \E w \in WorkerIds : WorkerCancelled(w)
    \/ \E w \in WorkerIds : QueueGetWaits(w)
    \/ \E w \in WorkerIds : WorkerTimeout(w)
    \/ \E w \in WorkerIds : WorkerContinues(w)

SpecSource == Init /\ [][NextSource]_vars


\* One registration of one source, whose connection attempts and transport
\* fail or succeed as the environment decides.
NextRetry ==
    \/ Len(workers) = 0 /\ WsStart
    \/ WsStop
    \/ \E n \in Names, h \in Handlers : Len(conns) = 0 /\ AddSourceConnection(n, h)
    \/ \E l \in LoopIds : LoopStart(l)
    \/ \E l \in LoopIds : LoopCancelled(l)
    \/ \E l \in LoopIds : ConnectSucceeds(l)
    \/ \E l \in LoopIds : ConnectFails(l)
    \/ \E l \in LoopIds : SleepEnds(l)
    \/ \E l \in LoopIds : _broadcast_queue = <<>> /\ MessageArrives(l, GoodMessage)
    \/ \E l \in LoopIds : HandlerReturns(l)
    \/ \E l \in LoopIds : TransportFails(l)
    \/ \E l \in LoopIds : ReceiveEnds(l)
    \/ StopCloseReturns
    \/ \E w \in WorkerIds : WorkerStart(w)
    \/ \E w \in WorkerIds : WorkerCancelled(w)
    \/ \E w \in WorkerIds : QueueGetWaits(w)
    \/ \E w \in WorkerIds : WorkerTimeout(w)
    \/ \E w \in WorkerIds : WorkerContinues(w)

SpecRetry == Init /\ [][NextRetry]_vars


-----------------------------------------------------------------------------
(* Claims about the source connections.                                     *)

ActiveLoops(n) == {l \in LoopIds : loops[l].name = n /\ Suspended(loops[l])}

OpenTransports(n) ==
    {t \in 1..Len(transports) : transports[t].name = n /\ transports[t].open}

\* C13: every source name has at most one active connect-and-receive loop and
\* at most one open transport, also after a transport failure during receive
\* and after the name is registered again.
C13_OneLoopPerSource ==
    \A n \in Names :
        /\ Cardinality(ActiveLoops(n)) <= 1
        /\ Cardinality(OpenTransports(n)) <= 1

\* C14: the reconnect attempt counter of every source stays between 0 and the
\* maximum attempt count.
C14_AttemptsWithinMax ==
    \A c \in 1..Len(conns) :
        conns[c].reconnect_attempts \in 0..max_reconnect_attempts

C15_Delay(k) ==
    IF reconnect_delay * 2^(k - 1) <= max_reconnect_delay
    THEN reconnect_delay * 2^(k - 1)
    ELSE max_reconnect_delay

C15_Backoff(l) ==
    loops[l].pc = "connecting" =>
        LET c == loops[l].conn[1]
            k == conns'[c].failed
        IN  /\ k = conns[c].failed + 1
            /\ conns'[c].reconnect_attempts = k
            /\ conns'[c].trail = <<ERROR, RECONNECTING>>
            /\ loops'[l].pc = "sleeping"
            /\ loops'[l].delay = C15_Delay(k)
            /\ loops'[l].delay <= max_reconnect_delay

\* C15: the k-th consecutive failed connection attempt of a source sets its
\* status to Error and then to Reconnecting, and the loop then waits
\* min(base_delay * 2^(k-1), max_delay) before it tests the loop condition
\* again.
C15_BackoffDoublesUpToMax ==
    [][\A l \in LoopIds : ~C15_Backoff(l) => ~ConnectFails(l)]_vars

\* Three failures in a row: the wait is cut to max_delay.
C15_Witness ==
    \E l \in LoopIds :
        /\ loops[l].pc = "sleeping"
        /\ loops[l].delay = max_reconnect_delay
        /\ conns[loops[l].conn[1]].failed = 3
        /\ reconnect_delay * 2^2 > max_reconnect_delay
        /\ conns[loops[l].conn[1]].status = RECONNECTING

C16_Removed(n) ==
    /\ source_connections'[n] = None
    /\ ~message_handlers'[n]
    /\ \A t \in 1..Len(transports') :
            transports'[t].name = n => ~transports'[t].open
    /\ \A l \in 1..Len(loops') :
            loops'[l].name = n => ~Suspended(loops'[l])

\* C16: when remove_source_connection(name) returns the name has no
\* registration, no handler and no open transport, and no connect loop for it
\* is still running (so nothing it receives later can be enqueued).
C16_RemoveLeavesNothing ==
    [][\A n \in Names :
            (\/ RemoveSourceConnection(n) /\ _lock' = None
             \/ RemoveCloseReturns /\ _lock[1].name = n)
                => C16_Removed(n)]_vars

RetriesRemain(c) == conns[c].reconnect_attempts < max_reconnect_attempts

InTrail(c, st) == \E i \in 1..Len(conns'[c].trail) : conns'[c].trail[i] = st

C17_ThroughErrorOnly(l) ==
    (loops[l].pc = "receiving" /\ ws_running
        /\ RetriesRemain(loops[l].rconn[1]))
        => /\ ~InTrail(loops[l].rconn[1], DISCONNECTED)
           /\ InTrail(loops[l].rconn[1], ERROR)
           /\ InTrail(loops[l].rconn[1], RECONNECTING)

\* C17: a transport failure during receive while retries remain takes the
\* source through Error and Reconnecting and never through Disconnected.
C17_FailureNeverDisconnects ==
    [][\A l \in LoopIds : ~C17_ThroughErrorOnly(l) => ~TransportFails(l)]_vars


-----------------------------------------------------------------------------
(* WebSocketManager: client sinks and the broadcast worker.  A sink is any  *)
(* object with send_json; whether a send succeeds is the environment's      *)
(* choice.  The for loop of broadcast_to_clients iterates over the live     *)
(* set: the iterator raises RuntimeError when the set's size differs from   *)
(* the size at the start of the loop, skips sinks removed meanwhile and may *)
(* or may not reach sinks added meanwhile.                                  *)

\* wait_for(self._broadcast_queue.get(), timeout=1.0) on a non-empty queue.
queue_get_newest(q) ==
    [message |-> q[Len(q)], rest |-> SubSeq(q, 1, Len(q) - 1)]

queue_get(q) == [message |-> Head(q), rest |-> Tail(q)]

\* The for statement of caller w (wk in the sequence ws) asks the set
\* iterator for the next sink.
FanOut(ws, w, wk) ==
    \/ /\ Cardinality(client_connections) # wk.size
       /\ workers' = [ws EXCEPT ![w] = worker_head(wk)]
       /\ UNCHANGED client_connections
    \/ /\ Cardinality(client_connections) = wk.size
       /\ \E c \in client_connections \ wk.visited :
            workers' = [ws EXCEPT ![w] =
                            [wk EXCEPT !.pc = "sending", !.cur = Some(c)]]
       /\ UNCHANGED client_connections
    \/ /\ Cardinality(client_connections) = wk.size
       /\ (wk.snapshot \cap client_connections) \subseteq wk.visited
       /\ workers' = [ws EXCEPT ![w] = worker_head(wk)]
       /\ client_connections' = client_connections \ wk.disconnected

\* broadcast_to_clients(message) by caller w, up to its first send_json.
broadcast_to_clients(ws, w, message) ==
    IF client_connections = {}
    THEN /\ workers' = [ws EXCEPT ![w] = worker_head(ws[w])]
         /\ UNCHANGED client_connections
    ELSE FanOut(ws, w, [ws[w] EXCEPT
                          !.message = Some(message),
                          !.snapshot = client_connections,
                          !.stayed = client_connections,
                          !.size = Cardinality(client_connections)])

\* The message _send_status_update sends to a sink that joins
connection_status == 0

\* add_client(websocket), up to the send_json of the status message.
AddClient(c) ==
    /\ adding[c].calls < MaxAdds
    /\ client_connections' = client_connections \cup {c}
    /\ adding' = [adding EXCEPT ![c] = [calls |-> @.calls + 1,
                                        waiting |-> @.waiting + 1]]
    /\ UNCHANGED <<wsShared, srcVars, workers, delivered, notWs>>

\* The send_json of the status message returns (ok) or raises, which
\* _send_status_update logs: add_client returns.
StatusSent(c, ok) ==
    /\ adding[c].waiting > 0
    /\ adding' = [adding EXCEPT ![c].waiting = @ - 1]
    /\ delivered' =
         IF ok THEN [delivered EXCEPT ![c] = Append(@, connection_status)]
         ELSE delivered
    /\ UNCHANGED <<wsShared, srcVars, client_connections, workers, notWs>>

\* Sink c is no longer one that stayed registered through the fan-outs in
\* progress.
RECURSIVE Unstay(_, _)
Unstay(ws, c) ==
    IF ws = <<>> THEN <<>>
    ELSE <<IF Head(ws).pc = "sending"
           THEN [Head(ws) EXCEPT !.stayed = @ \ {c}]
           ELSE Head(ws)>> \o Unstay(Tail(ws), c)

\* remove_client(websocket)
RemoveClient(c) ==
    /\ c \in client_connections
    /\ client_connections' = client_connections \ {c}
    /\ workers' = Unstay(workers, c)
    /\ UNCHANGED <<wsShared, srcVars, delivered, adding, notWs>>

\* queue.get() of worker w takes the oldest message off the queue; the
\* worker, waiting in wait_for, has not resumed.  A cancellation requested
\* before queue.get() ran is lost: wait_for finds queue.get() done and
\* returns the message.
WorkerTake(w) ==
    /\ workers[w].pc \in {"waiting", "cancelling_get"}
    /\ _broadcast_queue # <<>>
    /\ _broadcast_queue' = queue_get(_broadcast_queue).rest
    /\ workers' = [workers EXCEPT
                      ![w].pc = "taken",
                      ![w].message = Some(queue_get(_broadcast_queue).message)]
    /\ UNCHANGED <<ws_running, _tasks, put_count, srcVars, client_connections,
                   delivered, adding, notWs>>

\* wait_for returns the message to worker w: broadcast_to_clients up to its
\* first send_json.
WorkerResumes(w) ==
    /\ workers[w].pc = "taken"
    /\ broadcast_to_clients(workers, w, workers[w].message[1])
    /\ UNCHANGED <<wsShared, srcVars, delivered, adding, notWs>>

\* The payloads of the messages a caller hands to broadcast_to_clients
\* itself; the messages of the queue are numbered from 1.
DirectPayloads == {-1}

\* broadcast_to_clients(message) called directly, up to its first send_json.
BroadcastToClients(message) ==
    /\ Cardinality(WorkerIds \ WorkerTasks) < MaxCalls
    /\ broadcast_to_clients(Append(workers, [WorkerTask EXCEPT !.direct = TRUE]),
                            Len(workers) + 1, message)
    /\ UNCHANGED <<wsShared, srcVars, delivered, adding, notWs>>

\* broadcast_to_clients: the pending send_json returns (ok) or raises; the
\* for loop then goes on.
SendReturns(w, ok) ==
    /\ workers[w].pc = "sending"
    /\ LET c == workers[w].cur[1]
           wk == [workers[w] EXCEPT
                    !.visited = @ \cup {c},
                    !.disconnected = IF ok THEN @ ELSE @ \cup {c}]
       IN  /\ delivered' =
                IF ok THEN [delivered EXCEPT
                              ![c] = Append(@, workers[w].message[1].data)]
                ELSE delivered
           /\ FanOut(workers, w, wk)
    /\ UNCHANGED <<wsShared, srcVars, adding, notWs>>

\* One source whose transport stays up feeds the queue; start() is called
\* once, as the application's lifespan does (main.py:50), and the manager is
\* not stopped.  The worker's wait_for timeout changes nothing while _running
\* holds.  Sinks join and leave.
NextBroadcast ==
    \/ WorkerTasks = {} /\ WsStart
    \/ \E n \in Names, h \in Handlers : Len(conns) = 0 /\ AddSourceConnection(n, h)
    \/ \E l \in LoopIds : LoopStart(l)
    \/ \E l \in LoopIds : ConnectSucceeds(l)
    \/ \E l \in LoopIds : MessageArrives(l, GoodMessage)
    \/ \E l \in LoopIds : HandlerReturns(l)
    \/ \E w \in WorkerIds : WorkerStart(w)
    \/ \E c \in Clients : AddClient(c)
    \/ \E c \in Clients, ok \in BOOLEAN : StatusSent(c, ok)
    \/ \E c \in Clients : RemoveClient(c)
    \/ \E w \in WorkerIds : WorkerTake(w)
    \/ \E w \in WorkerIds : WorkerResumes(w)
    \/ \E w \in WorkerIds, ok \in BOOLEAN : SendReturns(w, ok)

SpecBroadcast == Init /\ [][NextBroadcast]_vars

\* The same with stop() called at any time, on a manager that runs, that was
\* never started or that was stopped before.
NextShutdown ==
    \/ WorkerTasks = {} /\ WsStart
    \/ WsStop
    \/ StopCloseReturns
    \/ StopClientClosed
    \/ \E n \in Names, h \in Handlers : Len(conns) = 0 /\ AddSourceConnection(n, h)
    \/ \E l \in LoopIds : LoopStart(l)
    \/ \E l \in LoopIds : LoopCancelled(l)
    \/ \E l \in LoopIds : ConnectSucceeds(l)
    \/ \E l \in LoopIds : MessageArrives(l, GoodMessage)
    \/ \E l \in LoopIds : HandlerReturns(l)
    \/ \E w \in WorkerIds : WorkerStart(w)
    \/ \E w \in WorkerIds : WorkerCancelled(w)
    \/ \E w \in WorkerIds : QueueGetWaits(w)
    \/ \E w \in WorkerIds : WorkerTimeout(w)
    \/ \E w \in WorkerIds : WorkerContinues(w)
    \/ \E c \in Clients : AddClient(c)
    \/ \E c \in Clients, ok \in BOOLEAN : StatusSent(c, ok)
    \/ \E c \in Clients : RemoveClient(c)
    \/ \E w \in WorkerIds : WorkerTake(w)
    \/ \E w \in WorkerIds : WorkerResumes(w)
    \/ \E w \in WorkerIds, ok \in BOOLEAN : SendReturns(w, ok)

SpecShutdown == Init /\ [][NextShutdown]_vars

\* The manager that is not stopped, with a caller that hands a message to
\* broadcast_to_clients itself while the worker drains the queue.
NextDirect ==
    \/ WorkerTasks = {} /\ WsStart
    \/ \E n \in Names, h \in Handlers : Len(conns) = 0 /\ AddSourceConnection(n, h)
    \/ \E l \in LoopIds : LoopStart(l)
    \/ \E l \in LoopIds : ConnectSucceeds(l)
    \/ \E l \in LoopIds : MessageArrives(l, GoodMessage)
    \/ \E l \in LoopIds : HandlerReturns(l)
    \/ \E w \in WorkerIds : WorkerStart(w)
    \/ \E c \in Clients : AddClient(c)
    \/ \E c \in Clients, ok \in BOOLEAN : StatusSent(c, ok)
    \/ \E c \in Clients : RemoveClient(c)
    \/ \E w \in WorkerIds : WorkerTake(w)
    \/ \E w \in WorkerIds : WorkerResumes(w)
    \/ \E p \in DirectPayloads :
            BroadcastToClients(BroadcastMessage("direct", p))
    \/ \E w \in WorkerIds, ok \in BOOLEAN : SendReturns(w, ok)

SpecDirect == Init /\ [][NextDirect]_vars

\* What sink c accepted of the messages that went through the queue, which
\* are numbered from 1 as they are put: the status message of add_client and
\* the messages of direct callers are not among them.
FromQueue(c) == SelectSeq(delivered[c], LAMBDA d : d >= 1)

\* C18: every client sink receives broadcast messages in the order in which
\* they were put on the broadcast queue (messages are numbered as they are
\* put): the worker is done with one message before it takes the next.
C18_DeliveryInQueueOrder ==
    /\ \A c \in Clients :
         \A i, j \in 1..Len(FromQueue(c)) :
            i < j => FromQueue(c)[i] < FromQueue(c)[j]
    /\ \A w \in WorkerTasks :
         workers[w].pc = "sending" =>
            \A c \in Clients : \A i \in 1..Len(FromQueue(c)) :
                FromQueue(c)[i] <= workers[w].message[1].data

\* Both sinks hold the two messages of the queue in order; c1 was sent its
\* status message first, c2 joined while message 1 was fanned out and was
\* sent its status message after it.
C18_Witness ==
    /\ delivered["c1"] = <<connection_status, 1, 2>>
    /\ delivered["c2"] = <<1, connection_status, 2>>


\* The fan-out that worker w was suspended in ends with this step.
FanOutEnds(w) == workers[w].pc = "sending" /\ workers'[w].pc # "sending"

C19_Outcome(w, ok) ==
    LET c == workers[w].cur[1]
        m == workers[w].message[1].data
        failed == workers[w].disconnected \cup (IF ok THEN {} ELSE {c})
        got(x) == \E i \in 1..Len(delivered'[x]) : delivered'[x][i] = m
    IN  (FanOutEnds(w) /\ failed # {})
            => /\ failed \cap client_connections' = {}
               /\ \A x \in failed : ~got(x)
               /\ \A x \in (workers[w].snapshot \cap client_connections')
                                \ failed : got(x)

\* C19: when a send fails during a broadcast, the failed sink is out of the
\* sink set once the broadcast is over, it has not been given the message by
\* a second try, and every other sink that is registered has been given it.
C19_FailedSinkDropped ==
    [][\A w \in WorkerIds, ok \in BOOLEAN :
            ~C19_Outcome(w, ok) => ~SendReturns(w, ok)]_vars


-----------------------------------------------------------------------------
(* The VWAP calculator applied to bounded order books.                      *)

LevelPrices == {0, 50, 52, 56}
LevelSizes == {0, 2 * (100 \div liquidity_factor_pct)}
Levels == {OrderBookLevel(p, z) : p \in LevelPrices, z \in LevelSizes}

RECURSIVE BooksOfDepth(_)
BooksOfDepth(n) ==
    IF n = 0 THEN {<<>>}
    ELSE {Append(b, lv) : b \in BooksOfDepth(n - 1), lv \in Levels}

\* Two levels whose scaled sizes are 11 and 9 dollars and whose prices are a
\* cent or two apart: the average lies a twentieth of a cent from a tenth
\* (50.45, slippage 0.45 or 0.55), a tie that no double holds exactly.
TiePrices == {50, 51, 52}
TieSizes == {9 * (100 \div liquidity_factor_pct),
             11 * (100 \div liquidity_factor_pct)}
TieLevels == {OrderBookLevel(p, z) : p \in TiePrices, z \in TieSizes}
TieSides == {<<a, b>> : a \in TieLevels, b \in TieLevels}

Sides == UNION {BooksOfDepth(n) : n \in 0..MaxLevels} \cup TieSides

Targets == {1, 3, 100}

InitVwap ==
    /\ InitBreaker
    /\ InitEngine(ArbitrageConfig(min_profit_usd))
    /\ InitWs
    /\ \E side \in Sides, which \in {"asks", "bids"}, target \in Targets,
          impl \in RoundImpls :
            InitL2(IF which = "asks" THEN L2OrderBook(<<>>, side)
                   ELSE L2OrderBook(side, <<>>),
                   L2OrderBook(<<>>, <<>>),
                   target, impl)

notL2 == <<cbVars, envVars, obsVars, attempts, engVars, scanObs, loopVars,
           wsVars, inbound, detection>>

CalculateBuyVwap ==
    /\ vwap_result' =
            [op |-> "buy",
             result |-> Some(calculate_buy_vwap(orderbook,
                                                target_size_dollars))]
    /\ UNCHANGED <<orderbook, no_orderbook, target_size_dollars, np_round,
                   notL2>>

CalculateSellVwap ==
    /\ vwap_result' =
            [op |-> "sell",
             result |-> Some(calculate_sell_vwap(orderbook,
                                                 target_size_dollars))]
    /\ UNCHANGED <<orderbook, no_orderbook, target_size_dollars, np_round,
                   notL2>>

NextVwap == CalculateBuyVwap \/ CalculateSellVwap

SpecVwap == InitVwap /\ [][NextVwap]_vars

\* The walk restated: prefix sums of the scaled sizes and of their cost.
RECURSIVE PrefixSize(_, _)
PrefixSize(side, k) ==
    IF k = 0 THEN 0
    ELSE PrefixSize(side, k - 1)
            + (side[k].size * liquidity_factor_pct) \div 100

RECURSIVE PrefixCost(_, _)
PrefixCost(side, k) ==
    IF k = 0 THEN 0
    ELSE PrefixCost(side, k - 1)
            + side[k].price * ((side[k].size * liquidity_factor_pct) \div 100)

\* The average price of the first k levels is within max_slippage_cents of
\* the best price (above it for a buy, below it for a sell).
WithinSlippage(side, k, sign) ==
    /\ PrefixSize(side, k) > 0
    /\ sign * (PrefixCost(side, k) - side[1].price * PrefixSize(side, k))
            <= max_slippage_cents * PrefixSize(side, k)

Qualifying(side, sign) ==
    {k \in 1..Min(Len(side), max_depth) : WithinSlippage(side, k, sign)}

Deepest(side, sign) ==
    CHOOSE k \in Qualifying(side, sign) :
        \A j \in Qualifying(side, sign) : j <= k

ZeroSized(r) ==
    /\ r.optimal_size = 0
    /\ r.execution_cost_usd[1] = 0
    /\ r.levels_used = 0

C20_Selects(side, sign, r) ==
    IF Len(side) = 0 \/ Qualifying(side, sign) = {} THEN ZeroSized(r)
    ELSE IF side[1].price = 0 THEN ZeroSized(r)
    ELSE /\ r.levels_used = Deepest(side, sign)
         /\ r.total_liquidity = PrefixSize(side, Deepest(side, sign))
         /\ r.optimal_size = Min(PrefixSize(side, Deepest(side, sign)),
                                 target_size_dollars)

\* C20: calculate_buy_vwap and calculate_sell_vwap select the deepest prefix
\* of the top max_depth levels (sizes scaled by the liquidity factor) whose
\* average price is within max_slippage_cents of the best price and return
\* optimal_size = min(cumulative size of that prefix, target size); when no
\* prefix qualifies the result has size 0, cost 0 and no levels used.
C20_DeepestPrefixWithinSlippage ==
    /\ vwap_result.op = "buy"
            => C20_Selects(orderbook.asks, 1, vwap_result.result[1])
    /\ vwap_result.op = "sell"
            => C20_Selects(orderbook.bids, -1, vwap_result.result[1])

\* A sell over three bids: the second prefix is beyond the tolerance, the
\* third is past max_depth, the size is cut to the target.
C20_Witness ==
    /\ vwap_result.op = "sell"
    /\ Len(orderbook.bids) = 3
    /\ orderbook.bids[1].price = 56
    /\ Qualifying(orderbook.bids, -1) = {1}
    /\ PrefixSize(orderbook.bids, 2) > PrefixSize(orderbook.bids, 1)
    /\ target_size_dollars < PrefixSize(orderbook.bids, 1)
    /\ vwap_result.result[1].optimal_size = target_size_dollars
    /\ vwap_result.result[1].levels_used = 1


\* ---------------------------------------------------------------------
\* Sizing against the target
\* ---------------------------------------------------------------------

\* The result of the walk over the side the last call read, for target t
Resized(t) ==
    IF vwap_result.op = "buy" THEN calculate_buy_vwap(orderbook, t)
    ELSE calculate_sell_vwap(orderbook, t)

SideRead == IF vwap_result.op = "buy" THEN orderbook.asks ELSE orderbook.bids

SignRead == IF vwap_result.op = "buy" THEN 1 ELSE -1

\* The cumulative size of the deepest prefix within the slippage
\* tolerance; 0 when no prefix is, and on a side whose best price is 0,
\* which the walk does not enter
ToleratedDepth ==
    IF Qualifying(SideRead, SignRead) = {} THEN 0
    ELSE IF SideRead[1].price = 0 THEN 0
    ELSE PrefixSize(SideRead, Deepest(SideRead, SignRead))

\* C21: for a fixed book and configuration the optimal size a call returns
\* never exceeds its target, no call with a smaller target returns more
\* and no call with a larger target returns less, and every target at
\* least as large as the tolerated depth gets exactly the cumulative size
\* of the deepest prefix within the slippage tolerance.
C21_SizeMonotoneAndCapped ==
    vwap_result.op # "none" =>
        LET r == vwap_result.result[1]
        IN  /\ r.optimal_size <= target_size_dollars
            /\ \A t \in Targets :
                /\ t <= target_size_dollars =>
                        Resized(t).optimal_size <= r.optimal_size
                /\ t >= target_size_dollars =>
                        Resized(t).optimal_size >= r.optimal_size
                /\ t >= ToleratedDepth =>
                        Resized(t).optimal_size = ToleratedDepth

\* A call whose target is beyond the tolerated depth returned the whole
\* depth, and a smaller target on the same book gets strictly less.
C21_Witness ==
    /\ vwap_result.op = "buy"
    /\ ToleratedDepth > 0
    /\ target_size_dollars > ToleratedDepth
    /\ vwap_result.result[1].optimal_size = ToleratedDepth
    /\ \E t \in Targets : Resized(t).optimal_size < ToleratedDepth


\* ---------------------------------------------------------------------
\* Two-leg sizing
\* ---------------------------------------------------------------------

MaxLegLevels == 2

LegPrices == {50, 52}

\* Displayed sizes: less than min_liquidity once scaled, and exactly
\* min_liquidity once scaled
LegSizes == {60, 2 * min_liquidity}

LegLevels == {OrderBookLevel(p, s) : p \in LegPrices, s \in LegSizes}

RECURSIVE LegAsksOfDepth(_)
LegAsksOfDepth(n) ==
    IF n = 0 THEN {<<>>}
    ELSE {Append(b, l) : b \in LegAsksOfDepth(n - 1), l \in LegLevels}

\* Two legs of scaled sizes 110 and 90 dollars a cent apart: their slippage
\* is 0.45 and 0.55, ties that no double holds exactly.
TieLegs ==
    {<<OrderBookLevel(50, 110 * (100 \div liquidity_factor_pct)),
       OrderBookLevel(51, 90 * (100 \div liquidity_factor_pct))>>,
     <<OrderBookLevel(50, 90 * (100 \div liquidity_factor_pct)),
       OrderBookLevel(51, 110 * (100 \div liquidity_factor_pct))>>}

LegAsks == UNION {LegAsksOfDepth(n) : n \in 0..MaxLegLevels} \cup TieLegs

LegTargets == {3, min_liquidity, 2 * min_liquidity}

InitArbitrageVwap ==
    /\ InitBreaker
    /\ InitEngine(ArbitrageConfig(min_profit_usd))
    /\ InitWs
    /\ \E yes \in LegAsks, no \in LegAsks, target \in LegTargets,
          impl \in RoundImpls :
            InitL2(L2OrderBook(<<>>, yes), L2OrderBook(<<>>, no), target,
                   impl)

CalculateArbitrageVwap ==
    /\ vwap_result' =
            [op |-> "arbitrage",
             result |-> Some(calculate_arbitrage_vwap(orderbook, no_orderbook,
                                                      target_size_dollars))]
    /\ UNCHANGED <<orderbook, no_orderbook, target_size_dollars, np_round,
                   notL2>>

NextArbitrageVwap == CalculateArbitrageVwap

SpecArbitrageVwap == InitArbitrageVwap /\ [][NextArbitrageVwap]_vars

\* The slippage the walk reports for the tolerated prefix of a side of asks
LegSlippage(side) ==
    IF Len(side) = 0 \/ Qualifying(side, 1) = {} THEN 0
    ELSE IF side[1].price = 0 THEN 0
    ELSE LET k == Deepest(side, 1)
         IN  round_slippage(PrefixCost(side, k), PrefixSize(side, k),
                            side[1].price, 1)

\* The size the walk returns for a side of asks
LegSize(side) ==
    IF Len(side) = 0 \/ Qualifying(side, 1) = {} THEN 0
    ELSE IF side[1].price = 0 THEN 0
    ELSE Min(PrefixSize(side, Deepest(side, 1)), target_size_dollars)

\* C22: calculate_arbitrage_vwap sizes each leg on its own book at the
\* same target, returns the smaller of the two leg sizes as
\* combined_optimal_size and the sum of the two leg slippages as the total
\* slippage, and reports the trade executable exactly when the combined
\* size is at least min_liquidity and the total slippage at most twice
\* max_slippage_cents.
C22_TwoLegSizing ==
    vwap_result.op = "arbitrage" =>
        LET r == vwap_result.result[1]
        IN  /\ r.yes_leg = calculate_buy_vwap(orderbook, target_size_dollars)
            /\ r.no_leg = calculate_buy_vwap(no_orderbook, target_size_dollars)
            /\ r.yes_leg.optimal_size = LegSize(orderbook.asks)
            /\ r.no_leg.optimal_size = LegSize(no_orderbook.asks)
            /\ r.combined_optimal_size <= LegSize(orderbook.asks)
            /\ r.combined_optimal_size <= LegSize(no_orderbook.asks)
            /\ r.combined_optimal_size
                    \in {LegSize(orderbook.asks), LegSize(no_orderbook.asks)}
            /\ r.total_slippage_cents
                    = LegSlippage(orderbook.asks) + LegSlippage(no_orderbook.asks)
            /\ r.can_execute <=>
                    /\ r.combined_optimal_size >= min_liquidity
                    /\ r.total_slippage_cents <= 20 * max_slippage_cents

\* The second leg is the smaller one and exactly min_liquidity deep, one
\* leg has slippage, and the trade is executable.
C22_Witness ==
    /\ vwap_result.op = "arbitrage"
    /\ vwap_result.result[1].no_leg.optimal_size = min_liquidity
    /\ vwap_result.result[1].yes_leg.optimal_size > min_liquidity
    /\ vwap_result.result[1].combined_optimal_size = min_liquidity
    /\ vwap_result.result[1].total_slippage_cents > 0
    /\ vwap_result.result[1].can_execute

\* A trade that is not executable because one leg is too shallow.
C22_WitnessShallow ==
    /\ vwap_result.op = "arbitrage"
    /\ vwap_result.result[1].yes_leg.optimal_size >= min_liquidity
    /\ vwap_result.result[1].combined_optimal_size \in 1..(min_liquidity - 1)
    /\ ~vwap_result.result[1].can_execute


\* ---------------------------------------------------------------------
\* The strategy detectors of advanced_arbitrage.py
\* ---------------------------------------------------------------------
\* Prices and fees are whole cents.  A value the code divides by 100 is
\* the pair <<cents, 100>>.

fees_cents == 3

Hundredth(cents) == <<cents, 100>>

\* The fields of ArbitrageOpportunity the detectors derive from prices
StrategyOpportunity(opp_id, yes, no, limitless, profit_cents, fees, leg_direction, leg_action) ==
    [id |-> opp_id,
     polymarket_yes_price |-> yes,
     polymarket_no_price |-> no,
     limitless_price |-> limitless,
     spread_pct |-> profit_cents,
     spread_absolute |-> Hundredth(profit_cents),
     direction |-> leg_direction,
     action |-> leg_action,
     gross_profit_pct |-> profit_cents,
     estimated_gas_cost |-> Hundredth(fees),
     net_profit_pct |-> profit_cents,
     net_profit_usd |-> Hundredth(profit_cents)]

SingleMarket(yes_price, no_price) ==
    [condition_id |-> "m", yes_price |-> yes_price, no_price |-> no_price]

\* total_cost > 100 in place of total_cost >= 100
single_rejects_above(total_cost) == total_cost > 100

\* if total_cost >= 100: return None
single_rejects(total_cost) == total_cost >= 100

detect_single_market_arbitrage(market, fees) ==
    LET total_cost == market.yes_price + market.no_price + fees
        profit_cents == 100 - total_cost
    IN  IF single_rejects(total_cost) THEN None
        ELSE Some(StrategyOpportunity(
                    <<"single", market.condition_id>>,
                    Hundredth(market.yes_price),
                    Hundredth(market.no_price),
                    None,
                    profit_cents, fees, "poly_internal", "buy_poly_yes"))

Fees == {0, fees_cents}

SinglePrices == {40, 47, 48, 50, 55}

SingleMarkets == {SingleMarket(y, n) : y \in SinglePrices, n \in SinglePrices}

notDetect == <<cbVars, envVars, obsVars, attempts, engVars, scanObs, loopVars,
               wsVars, inbound, l2Vars>>

DetectSingleMarket(market, fees) ==
    /\ detection' = [strategy |-> "single",
                     market |-> Some(market),
                     fees_cents |-> fees,
                     result |-> detect_single_market_arbitrage(market, fees)]
    /\ UNCHANGED notDetect


TeamOutcome(yes_price, no_price) ==
    [yes_price |-> yes_price, no_price |-> no_price]

ThreeWayMarket(home_team, away_team, draw_yes_price) ==
    [condition_id |-> "m",
     home_team |-> home_team,
     away_team |-> away_team,
     draw |-> [yes_price |-> draw_yes_price]]

\* Always the first combination
three_way_first(option1_cost, option2_cost) == "home"

\* if option1_cost < option2_cost: team = "home" else: team = "away"
three_way_team(option1_cost, option2_cost) ==
    IF option1_cost < option2_cost THEN "home" ELSE "away"

detect_three_way_arbitrage(market, fees) ==
    LET home_team == market.home_team
        away_team == market.away_team
        draw == market.draw
        option1_cost ==
            home_team.yes_price + away_team.no_price + draw.yes_price
        option2_cost ==
            away_team.yes_price + home_team.no_price + draw.yes_price
        team == three_way_team(option1_cost, option2_cost)
        best_cost == IF team = "home" THEN option1_cost ELSE option2_cost
        action == IF team = "home" THEN "buy_poly_yes" ELSE "buy_poly_no"
        yes_price ==
            IF team = "home" THEN home_team.yes_price
            ELSE away_team.yes_price
        no_price ==
            IF team = "home" THEN away_team.no_price ELSE home_team.no_price
        total_cost == best_cost + fees
        profit_cents == 100 - total_cost
    IN  IF total_cost >= 100 THEN None
        ELSE Some(StrategyOpportunity(
                    <<"three-way", market.condition_id>>,
                    Hundredth(yes_price),
                    Hundredth(no_price),
                    None,
                    profit_cents, fees, "poly_internal", action))

TeamPrices == {20, 30, 62}

DrawPrices == {15, 20}

TeamOutcomes == {TeamOutcome(y, n) : y \in TeamPrices, n \in TeamPrices}

ThreeWayMarkets ==
    {ThreeWayMarket(h, a, d) :
        h \in TeamOutcomes, a \in TeamOutcomes, d \in DrawPrices}

DetectThreeWay(market, fees) ==
    /\ detection' = [strategy |-> "three-way",
                     market |-> Some(market),
                     fees_cents |-> fees,
                     result |-> detect_three_way_arbitrage(market, fees)]
    /\ UNCHANGED notDetect

CrossPlatformPair(poly_yes, poly_no, limitless_yes, limitless_no) ==
    [polymarket_market_id |-> "m",
     polymarket_yes_price |-> poly_yes,
     polymarket_no_price |-> poly_no,
     limitless_yes_price |-> limitless_yes,
     limitless_no_price |-> limitless_no]

\* opportunities[-1]
last_opportunity(opps) == opps[Len(opps)]

\* max(opportunities, key=lambda opp: opp.net_profit_usd): the first of the
\* opportunities whose profit no other exceeds.  Both profits are over 100.
max_net_profit_usd(opps) ==
    LET best ==
            CHOOSE i \in DOMAIN opps :
                /\ \A j \in DOMAIN opps :
                        opps[j].net_profit_usd[1] <= opps[i].net_profit_usd[1]
                /\ \A j \in DOMAIN opps :
                        opps[j].net_profit_usd[1] = opps[i].net_profit_usd[1]
                            => i <= j
    IN  opps[best]

detect_cross_platform_arbitrage(pair, fees) ==
    LET cost1 == pair.polymarket_yes_price + pair.limitless_no_price[1] + fees
        option1 ==
            IF pair.limitless_no_price # None /\ cost1 < 100
            THEN <<StrategyOpportunity(
                    <<"cross-poly-yes-limitless-no", pair.polymarket_market_id>>,
                    Hundredth(pair.polymarket_yes_price),
                    Hundredth(0),
                    Some(Hundredth(pair.limitless_no_price[1])),
                    100 - cost1, fees, "poly_to_limitless", "buy_poly_yes")>>
            ELSE <<>>
        cost2 == pair.limitless_yes_price[1] + pair.polymarket_no_price + fees
        option2 ==
            IF pair.limitless_yes_price # None /\ cost2 < 100
            THEN <<StrategyOpportunity(
                    <<"cross-limitless-yes-poly-no", pair.polymarket_market_id>>,
                    Hundredth(0),
                    Hundredth(pair.polymarket_no_price),
                    Some(Hundredth(pair.limitless_yes_price[1])),
                    100 - cost2, fees, "limitless_to_poly", "buy_limitless")>>
            ELSE <<>>
        opps == option1 \o option2
    IN  IF Len(opps) = 0 THEN None ELSE Some(max_net_profit_usd(opps))

PolyCents == {40, 50}

LimitlessCents == {None, Some(45), Some(47), Some(55)}

CrossPlatformPairs ==
    {CrossPlatformPair(py, pn, ly, ln) :
        py \in PolyCents, pn \in PolyCents,
        ly \in LimitlessCents, ln \in LimitlessCents}

DetectCrossPlatform(pair, fees) ==
    /\ detection' = [strategy |-> "cross",
                     market |-> Some(pair),
                     fees_cents |-> fees,
                     result |-> detect_cross_platform_arbitrage(pair, fees)]
    /\ UNCHANGED notDetect

MaxOutcomes == 4

MultiOutcomeMarket(outcomes) == [condition_id |-> "m", outcomes |-> outcomes]

RECURSIVE sum_yes_price(_)
sum_yes_price(outcomes) ==
    IF Len(outcomes) = 0 THEN 0
    ELSE outcomes[1].yes_price + sum_yes_price(Tail(outcomes))

\* No total is rejected
multi_rejects_none(total_cost) == FALSE

\* if total_cost >= 100: return None
multi_rejects(total_cost) == total_cost >= 100

detect_multi_outcome_arbitrage(market, fees) ==
    IF Len(market.outcomes) < 3 THEN None
    ELSE
    LET total_price_cents == sum_yes_price(market.outcomes)
        total_cost == total_price_cents + fees
        profit_cents == 100 - total_cost
    IN  IF multi_rejects(total_cost) THEN None
        ELSE Some(StrategyOpportunity(
                    <<"multi-outcome", market.condition_id>>,
                    Hundredth(total_price_cents),
                    Hundredth(0),
                    None,
                    profit_cents, fees, "poly_internal", "buy_poly_yes"))

OutcomePrices == {20, 30, 47}

RECURSIVE OutcomesOfLength(_)
OutcomesOfLength(n) ==
    IF n = 0 THEN {<<>>}
    ELSE {Append(o, [yes_price |-> p]) :
            o \in OutcomesOfLength(n - 1), p \in OutcomePrices}

MultiOutcomeMarkets ==
    {MultiOutcomeMarket(o) :
        o \in UNION {OutcomesOfLength(n) : n \in 2..MaxOutcomes}}

DetectMultiOutcome(market, fees) ==
    /\ detection' = [strategy |-> "multi-outcome",
                     market |-> Some(market),
                     fees_cents |-> fees,
                     result |-> detect_multi_outcome_arbitrage(market, fees)]
    /\ UNCHANGED notDetect

InitDetect ==
    /\ InitBreaker
    /\ InitEngine(ArbitrageConfig(min_profit_usd))
    /\ InitWs
    /\ InitL2(L2OrderBook(<<>>, <<>>), L2OrderBook(<<>>, <<>>), 1, "around")

NextDetect ==
    \/ \E m \in SingleMarkets, f \in Fees : DetectSingleMarket(m, f)
    \/ \E m \in ThreeWayMarkets, f \in Fees : DetectThreeWay(m, f)
    \/ \E m \in CrossPlatformPairs, f \in Fees : DetectCrossPlatform(m, f)
    \/ \E m \in MultiOutcomeMarkets, f \in Fees : DetectMultiOutcome(m, f)

SpecDetect == InitDetect /\ [][NextDetect]_vars

\* What the latest detector call was given and what it returned
Called(strategy) == detection.strategy = strategy

Emitted == detection.result # None

\* C23: detect_single_market_arbitrage returns an opportunity exactly when
\* yes_price + no_price + fees is strictly below 100 cents (none at 100),
\* and then the profit is 100 minus that total, in cents, and
\* net_profit_usd is that profit divided by 100.
C23_SingleMarketStrictlyBelow100 ==
    Called("single") =>
        LET m == detection.market[1]
            total == m.yes_price + m.no_price + detection.fees_cents
        IN  /\ Emitted <=> total < 100
            /\ Emitted =>
                LET o == detection.result[1]
                IN  /\ o.net_profit_pct = 100 - total
                    /\ o.net_profit_usd[1] * 100
                            = (100 - total) * o.net_profit_usd[2]

\* yes 40, no 55, fees 3: total 98, an opportunity of 2 cents
C23_Witness ==
    /\ Called("single")
    /\ detection.market[1].yes_price = 40
    /\ detection.market[1].no_price = 55
    /\ detection.fees_cents = 3
    /\ Emitted
    /\ detection.result[1].net_profit_usd = <<2, 100>>

\* yes 50, no 47, fees 3: total 100, no opportunity
C23_WitnessAt100 ==
    /\ Called("single")
    /\ detection.market[1].yes_price = 50
    /\ detection.market[1].no_price = 47
    /\ detection.fees_cents = 3
    /\ ~Emitted


\* The two legal combinations of a three-way market
Option1Cost(m) ==
    m.home_team.yes_price + m.away_team.no_price + m.draw.yes_price

Option2Cost(m) ==
    m.away_team.yes_price + m.home_team.no_price + m.draw.yes_price

ReportsOption1(m, o) ==
    /\ o.action = "buy_poly_yes"
    /\ o.polymarket_yes_price[1] * 100
            = m.home_team.yes_price * o.polymarket_yes_price[2]
    /\ o.polymarket_no_price[1] * 100
            = m.away_team.no_price * o.polymarket_no_price[2]

ReportsOption2(m, o) ==
    /\ o.action = "buy_poly_no"
    /\ o.polymarket_yes_price[1] * 100
            = m.away_team.yes_price * o.polymarket_yes_price[2]
    /\ o.polymarket_no_price[1] * 100
            = m.home_team.no_price * o.polymarket_no_price[2]

\* C24: detect_three_way_arbitrage decides on the cheaper of
\* home.yes + away.no + draw.yes and away.yes + home.no + draw.yes, plus
\* fees: it emits an opportunity exactly when that total is below 100
\* cents, with profit 100 minus the total, and the legs and the action it
\* reports are those of the cheaper combination, also when the second
\* combination is strictly lower.
C24_ThreeWayPicksCheaper ==
    Called("three-way") =>
        LET m == detection.market[1]
            total == Min(Option1Cost(m), Option2Cost(m)) + detection.fees_cents
        IN  /\ Emitted <=> total < 100
            /\ Emitted =>
                LET o == detection.result[1]
                IN  /\ o.net_profit_pct = 100 - total
                    /\ o.net_profit_usd[1] * 100
                            = (100 - total) * o.net_profit_usd[2]
                    /\ Option1Cost(m) < Option2Cost(m) => ReportsOption1(m, o)
                    /\ Option2Cost(m) < Option1Cost(m) => ReportsOption2(m, o)
                    /\ ReportsOption1(m, o) \/ ReportsOption2(m, o)

\* The second combination is strictly lower and is the one reported.
C24_Witness ==
    /\ Called("three-way")
    /\ Option2Cost(detection.market[1]) < Option1Cost(detection.market[1])
    /\ Option1Cost(detection.market[1]) + detection.fees_cents < 100
    /\ Emitted
    /\ detection.result[1].action = "buy_poly_no"
    /\ detection.result[1].net_profit_pct
            = 100 - Option2Cost(detection.market[1]) - detection.fees_cents


\* The combinations of a cross-platform pair whose counter-venue price is
\* present, and their cost with fees
Evaluated(pair) ==
    {c \in {1, 2} :
        IF c = 1 THEN pair.limitless_no_price # None
        ELSE pair.limitless_yes_price # None}

CombinationCost(pair, c, fees) ==
    IF c = 1
    THEN pair.polymarket_yes_price + pair.limitless_no_price[1] + fees
    ELSE pair.limitless_yes_price[1] + pair.polymarket_no_price + fees

Feasible(pair, fees) ==
    {c \in Evaluated(pair) : CombinationCost(pair, c, fees) < 100}

ReportsCombination(pair, c, o) ==
    IF c = 1
    THEN /\ o.direction = "poly_to_limitless"
         /\ o.action = "buy_poly_yes"
         /\ o.polymarket_yes_price = Hundredth(pair.polymarket_yes_price)
         /\ o.limitless_price = Some(Hundredth(pair.limitless_no_price[1]))
    ELSE /\ o.direction = "limitless_to_poly"
         /\ o.action = "buy_limitless"
         /\ o.polymarket_no_price = Hundredth(pair.polymarket_no_price)
         /\ o.limitless_price = Some(Hundredth(pair.limitless_yes_price[1]))

\* C25: detect_cross_platform_arbitrage evaluates only the combinations
\* whose counter-venue leg price is present, returns nothing when no
\* evaluated combination costs less than 100 cents with fees, and
\* otherwise returns the opportunity of the cheapest feasible combination,
\* the one with the largest profit.
C25_CrossPlatformCheapestFeasible ==
    Called("cross") =>
        LET pair == detection.market[1]
            fees == detection.fees_cents
        IN  /\ Emitted <=> Feasible(pair, fees) # {}
            /\ Emitted =>
                \E c \in Feasible(pair, fees) :
                    /\ \A d \in Feasible(pair, fees) :
                            CombinationCost(pair, c, fees)
                                <= CombinationCost(pair, d, fees)
                    /\ ReportsCombination(pair, c, detection.result[1])
                    /\ detection.result[1].net_profit_pct
                            = 100 - CombinationCost(pair, c, fees)
                    /\ detection.result[1].net_profit_usd
                            = Hundredth(100 - CombinationCost(pair, c, fees))

\* Both combinations are feasible, the first is strictly cheaper and is
\* the one returned.
C25_Witness ==
    /\ Called("cross")
    /\ Feasible(detection.market[1], detection.fees_cents) = {1, 2}
    /\ CombinationCost(detection.market[1], 1, detection.fees_cents)
            < CombinationCost(detection.market[1], 2, detection.fees_cents)
    /\ Emitted
    /\ detection.result[1].direction = "poly_to_limitless"

\* Only the second combination has its counter-venue price, and it is
\* returned.
C25_WitnessOneLeg ==
    /\ Called("cross")
    /\ Evaluated(detection.market[1]) = {2}
    /\ Emitted
    /\ detection.result[1].direction = "limitless_to_poly"


\* ---------------------------------------------------------------------
\* Every source of opportunities: the four detectors and the engine's scan
\* ---------------------------------------------------------------------
\* The detectors are pure functions the engine never calls, and they read
\* nothing of the engine: a behaviour records one detector call on an
\* engine that has not run, or runs the engine with no detector call
\* recorded.

EngineFresh ==
    /\ \A m \in PolyMarkets :
            polymarket_prices[m] = None /\ asset_mappings[m] = None
    /\ \A p \in Pools : limitless_prices[p] = None
    /\ opportunities = {}
    /\ now = 1
    /\ detection.strategy = "none"

\* The engine's steps at one instant: staleness plays no part in what a
\* stored opportunity is worth.
NextEmit ==
    \/ \E m \in PolyMarkets, y \in YesPrices, n \in NoPrices :
            detection.strategy = "none" /\ UpdatePolymarketPrice(m, y, n)
    \/ \E p \in Pools, x \in LimitlessPrices :
            detection.strategy = "none" /\ UpdateLimitlessPrice(p, x)
    \/ \E m \in PolyMarkets, p \in Pools :
            detection.strategy = "none" /\ AddAssetMapping(m, p)
    \/ detection.strategy = "none" /\ Scan
    \/ EngineFresh /\ NextDetect

SpecEmit == InitScan /\ [][NextEmit]_vars

\* C26: every opportunity a strategy detector returns, and every
\* opportunity in the engine's opportunities map when min_profit_usd is
\* not negative, has net_profit_usd >= 0.
C26_NoUnprofitableOpportunity ==
    /\ Emitted => detection.result[1].net_profit_usd[1] >= 0
    /\ float_ge(config.min_profit_usd, Zero) =>
            \A o \in opportunities : float_ge(o.net_profit_usd, Zero)

\* A multi-outcome opportunity of three outcomes
C26_Witness ==
    /\ Called("multi-outcome")
    /\ Len(detection.market[1].outcomes) = 3
    /\ Emitted
    /\ detection.result[1].net_profit_usd[1] > 0

\* An opportunity stored by a scan
C26_WitnessStored ==
    /\ float_ge(config.min_profit_usd, Zero)
    /\ \E o \in opportunities : float_ge(o.net_profit_usd, Zero)


\* ---------------------------------------------------------------------
\* The manual controls
\* ---------------------------------------------------------------------

ResetOutcome ==
    /\ state' = CLOSED
    /\ error_count' = 0
    /\ daily_metrics'.consecutive_errors = 0
    /\ trip_time' = None

TripOutcome ==
    /\ state' = OPEN
    /\ trip_time' # None

\* C27: the manual controls are enabled in every breaker state;
\* manual_reset leaves the breaker Closed with the live error counter 0,
\* the daily consecutive-error counter 0 and the trip time cleared;
\* manual_trip leaves it Open with a trip time recorded.
C27_ManualControls ==
    /\ [](ENABLED ManualReset /\ ENABLED ManualTrip)
    /\ [][/\ ~ResetOutcome => ~ManualReset
          /\ ~TripOutcome => ~ManualTrip]_vars

\* A reset has just closed the breaker after failed trades: the counters
\* are 0 and no trip time is left.
C27_Witness ==
    /\ last.op = "manual_reset"
    /\ state = CLOSED
    /\ trip_time = None
    /\ error_count = 0
    /\ daily_metrics.failed_trades > 0

\* A manual trip has just opened the breaker.
C27_WitnessTrip ==
    /\ last.op = "manual_trip"
    /\ state = OPEN
    /\ trip_time # None
    /\ error_count = 0


\* ---------------------------------------------------------------------
\* The calendar day and the daily record
\* ---------------------------------------------------------------------

MaxDay == 2

\* get_daily_metrics: the breaker after the roll of the day; it returns
\* .daily_metrics
get_daily_metrics(b, day) ==
    IF b.daily_metrics.date # day
    THEN [b EXCEPT !.daily_metrics = _initialize_daily_metrics(day)]
    ELSE b

\* get_status: get_daily_metrics, then get_state, then can_trade, which
\* calls get_state again
get_status(b, t, day) ==
    LET b1 == get_daily_metrics(b, day)
        b2 == get_state(b1, t)
        ct == can_trade(b2, t)
    IN  [b |-> ct.b,
         status |-> [state |-> b2.state,
                     can_trade |-> ct.ret,
                     error_count |-> ct.b.error_count,
                     consecutive_errors |-> b1.daily_metrics.consecutive_errors,
                     daily_pnl_usd |-> b1.daily_metrics.total_pnl_usd,
                     trip_time |-> ct.b.trip_time]]

\* date.today() has moved on
DayChange ==
    /\ today < MaxDay
    /\ today' = today + 1
    /\ UNCHANGED <<now, notEngine, notBreaker>>

GetDailyMetrics ==
    LET b == get_daily_metrics(This, today)
    IN  /\ Install(b)
        /\ last' = Call("get_daily_metrics", TRUE, "none")
        /\ phase' = 0
        /\ streak' = StreakAfter(b)
        /\ UNCHANGED <<envVars, attempts, notBreaker>>

GetStatus ==
    LET r == get_status(This, now, today)
    IN  /\ Install(r.b)
        /\ last' = Call("get_status", r.status.can_trade, r.status.state)
        /\ phase' = 0
        /\ streak' = StreakAfter(r.b)
        /\ UNCHANGED <<envVars, attempts, notBreaker>>

NextDay ==
    \/ Tick
    \/ DayChange
    \/ GetState
    \/ CanTrade
    \/ \E m \in Markets, s \in Sizes, l \in Losses : ValidateTrade(m, s, l)
    \/ \E res \in SuccessResults : RecordSuccess(res)
    \/ \E m \in Markets, res \in FillResults \cup {FailureResult} :
            UpdatePosition(m, res)
    \/ GetDailyMetrics
    \/ GetStatus

SpecDay == Init /\ [][NextDay]_vars

\* The record is of an earlier day, and still is after the step
RecordStaysStale ==
    /\ daily_metrics.date # today
    /\ daily_metrics'.date # today'

\* A read of the breaker
BreakerRead ==
    \/ GetState
    \/ CanTrade
    \/ \E m \in Markets, s \in Sizes, l \in Losses : ValidateTrade(m, s, l)
    \/ GetStatus
    \/ GetDailyMetrics

\* C28: whenever the calendar date differs from the date of the current
\* DailyMetrics record, any read of the breaker (get_state, can_trade,
\* validate_trade, get_status, get_daily_metrics) replaces the record by a
\* zeroed one for the new date, so that no limit is evaluated against the
\* previous day's figures.
C28_ReadsRollTheDay == [][RecordStaysStale => ~BreakerRead]_vars

\* validate_trade on the new day has tripped the breaker on the daily loss
\* limit: the P&L the estimated loss was added to is the previous day's,
\* whose record is still in place.
C28_TrippedOnYesterdaysLoss ==
    /\ last.op = "validate_trade"
    /\ last.reason = "daily_loss"
    /\ daily_metrics.date # today
    /\ daily_metrics.total_pnl_usd < 0
    /\ state = OPEN

-----------------------------------------------------------------------------
(* A scan whose callbacks suspend.  on_alert, on_opportunity and on_signal  *)
(* are coroutines the engine awaits; one that waits hands the event loop    *)
(* to the other tasks with the scan stopped inside _on_new_opportunity or   *)
(* _on_opportunity_update, after the fields of the opportunity at hand      *)
(* were written and before the next opportunity is stored.                  *)

\* The scan of task i which started at time t from the engine e_from: opps are
\* the opportunities still to store, awaits the callbacks still to return, the
\* first of them being the one the task is suspended in.
SuspendedTick(i, e_from, t, opps, awaits) == [task |-> i, e_from |-> e_from, started |-> t, opps |-> opps, awaits |-> awaits]

\* scan_for_opportunities, third loop from opps on, up to the first callback
\* it awaits.
RECURSIVE StoreUntilAwait(_, _)
StoreUntilAwait(e, opps) ==
    IF opps = <<>> THEN [e |-> e, opps |-> <<>>, awaits |-> <<>>]
    ELSE LET r == StoreOne(e, Head(opps))
         IN  IF r.ev # <<>>
             THEN [e |-> r.e, opps |-> Tail(opps), awaits |-> r.ev]
             ELSE StoreUntilAwait(r.e, Tail(opps))

\* The callback a scan stopped at awaits is the one being called.
Calling(awaits) == IF awaits = <<>> THEN <<>> ELSE <<Head(awaits)>>

StoreFound(found) == StoreUntilAwait(found.e, found.opps)

\* The scan of task i, started at the time started from the engine e_from,
\* has run to r: to the next callback it awaits, or to its end and the sleep
\* of the loop.  called are the callbacks the scan has called before.
TickRuns(i, e_from, started, called, r) ==
    /\ InstallEng(r.e)
    /\ emitted' = called \o Calling(r.awaits)
    /\ IF r.awaits = <<>>
       THEN /\ tick' = [tick EXCEPT ![i] = None]
            /\ tasks' = [tasks EXCEPT ![i] = "sleeping"]
       ELSE /\ tick' = [tick EXCEPT ![i] =
                          Some(SuspendedTick(i, e_from, started,
                                             r.opps, r.awaits))]
            /\ tasks' = [tasks EXCEPT ![i] = "awaiting"]

\* One pass of _scan_loop in task i, from the while test to the first callback
\* of the scan, or to the sleep when the scan calls none.
TickBegin(i) ==
    /\ Alive(i)
    /\ IF _running
       THEN /\ _opportunity_counter < MaxOpportunities
            /\ TickRuns(i, Eng, now, <<>>, StoreFound(ScanFound(Eng, now)))
            /\ since_scan' = "unchanged"
       ELSE /\ tasks' = [tasks EXCEPT ![i] = "done"]
            /\ UNCHANGED <<engVars, scanObs, tick>>
    /\ UNCHANGED <<_running, _scan_task, envVars, notEngine>>

\* The callback the scan of task i is suspended in returns: the scan goes on
\* to the next callback it awaits, or to its end and the sleep of the loop.
CallbackReturns(i) ==
    /\ InCallback(i)
    /\ tick[i] # None
    /\ LET k == tick[i][1]
       IN  TickRuns(i, k.e_from, k.started, emitted,
                    IF Tail(k.awaits) # <<>>
                    THEN [e |-> Eng, opps |-> k.opps,
                          awaits |-> Tail(k.awaits)]
                    ELSE StoreUntilAwait(Eng, k.opps))
    /\ UNCHANGED <<since_scan, _running, _scan_task, envVars, notEngine>>

\* Quotes for which one scan finds an internal and a cross-platform
\* opportunity (480 + 478 against 500) or the internal one alone.
CancelNoPrices == {478}

\* The engine is started and stopped at any time, a second start() leaving
\* two scan loops whose scans may both be suspended, and fed while a scan is
\* suspended.
NextCancel ==
    \/ \E m \in PolyMarkets, y \in YesPrices, n \in CancelNoPrices :
            UpdatePolymarketPrice(m, y, n)
    \/ \E p \in Pools, x \in LimitlessPrices : UpdateLimitlessPrice(p, x)
    \/ \E m \in PolyMarkets, p \in Pools : AddAssetMapping(m, p)
    \/ EngineStart
    \/ EngineStop
    \/ \E i \in TaskIds : TaskCancelled(i)
    \/ \E i \in TaskIds : TickBegin(i)
    \/ \E i \in TaskIds : CallbackReturns(i)

SpecCancel == InitScan /\ [][NextCancel]_vars

\* What the engine's readers see of a scan.
Visible(e) == [opportunities |-> e.opportunities, signals |-> e.signals, alerts |-> e.alerts, total_opportunities_found |-> e.total_opportunities_found, _opportunity_counter |-> e._opportunity_counter, _signal_counter |-> e._signal_counter, _alert_counter |-> e._alert_counter]

\* Task i, whose scan is suspended, receives the cancellation of stop().
CancelledInTick(i) ==
    /\ tick[i] # None
    /\ tick'[i] = None
    /\ tasks'[i] = "done"

\* C29: if the scan task is cancelled by stop() while a tick is in progress,
\* the engine-visible state (opportunities map, signals, alerts, counters) is
\* either the state before that tick or the state of the completed tick,
\* never a partially applied tick.
C29_CancelledTickIsAllOrNothing == [][\A i \in TaskIds : CancelledInTick(i) => Visible(Eng') \in {Visible(tick[i][1].e_from), Visible(scan_for_opportunities(tick[i][1].e_from, tick[i][1].started).e)}]_vars

\* The engine after a stop that cancelled a scan in the callback of the first
\* of its two opportunities: one opportunity stored, two identifiers drawn.
C29_PartialTick ==
    /\ ~_running
    /\ \A i \in TaskIds : tick[i] = None
    /\ \E i \in TaskIds : _scan_task = Some(i) /\ tasks[i] = "done"
    /\ Cardinality(opportunities) = 1
    /\ total_opportunities_found = 1
    /\ _opportunity_counter = 2

-----------------------------------------------------------------------------
(* The VWAP calculators on a side with nothing to price against.           *)

\* The side read by the latest calculation has no level, or a best price of 0
NothingToPrice == SideRead = <<>> \/ SideRead[1].price = 0

\* C30: calculate_buy_vwap on an empty ask list, calculate_sell_vwap on an
\* empty bid list, and either on a book whose best price is 0, return a
\* result with optimal_size 0, execution cost 0 and 0 levels used, without
\* raising.
C30_NothingToPriceGivesZeroResult ==
    (vwap_result.op \in {"buy", "sell"} /\ NothingToPrice)
        => /\ vwap_result.result # None
           /\ vwap_result.result[1].optimal_size = 0
           /\ vwap_result.result[1].execution_cost_usd[1] = 0
           /\ vwap_result.result[1].levels_used = 0

\* A calculation on a side whose best price is 0 with size on offer, a priced
\* level behind it.
C30_Witness ==
    /\ vwap_result.op \in {"buy", "sell"}
    /\ Len(SideRead) >= 2
    /\ SideRead[1].price = 0
    /\ SideRead[1].size > 0
    /\ SideRead[2].price > 0
    /\ SideRead[2].size > 0
    /\ vwap_result.result # None

\* A calculation on an empty side.
C30_WitnessEmpty ==
    /\ vwap_result.op \in {"buy", "sell"}
    /\ SideRead = <<>>
    /\ vwap_result.result # None

-----------------------------------------------------------------------------
(* The lazy transitions of get_state, whichever call reads the breaker.    *)

\* A step that takes the breaker from OPEN to HALF_OPEN
OpenToHalfOpen == state = OPEN /\ state' = HALF_OPEN

\* C31: get_state moves the breaker from Open to HalfOpen only when
\* now - trip_time is strictly greater than the cooldown, and on that
\* transition the live error counter becomes half its previous value
\* (integer halving) rather than being zeroed.
C31_HalfOpenHalvesErrorCount ==
    [][OpenToHalfOpen
            => /\ CooldownElapsed
               /\ error_count' = error_count \div 2
    ]_vars

\* A step that takes the breaker from HALF_OPEN to CLOSED without the
\* operator's manual_reset
ClosesByItself ==
    /\ state = HALF_OPEN
    /\ state' = CLOSED
    /\ last'.op # "manual_reset"

\* The conditions of the claim C32, read from the breaker's fields
CountersClear ==
    /\ error_count = 0
    /\ daily_metrics.consecutive_errors < breaker_config.max_consecutive_errors

DailyLossBreached == daily_metrics.total_pnl_usd <= -breaker_config.max_daily_loss_usd

\* C32: get_state moves the breaker from HalfOpen to Closed only when the
\* live error counter is 0, the daily consecutive-error count is below
\* max_consecutive_errors and the daily P&L is above -max_daily_loss; in
\* particular the breaker never closes automatically while the daily loss
\* limit is breached.
C32_ClosesOnlyWhenClear ==
    [][/\ ClosesByItself => (CountersClear /\ ~DailyLossBreached)
       /\ (state = HALF_OPEN /\ GetState)
            => (state' = CLOSED <=> (CountersClear /\ ~DailyLossBreached))
    ]_vars

\* A read found the breaker HALF_OPEN with both error counters clear and the
\* daily loss limit breached, and left it HALF_OPEN.
C32_Witness ==
    /\ last.op = "get_state"
    /\ state = HALF_OPEN
    /\ CountersClear
    /\ DailyLossBreached

\* A read closed the breaker, the daily P&L being above the limit.
C32_WitnessCloses ==
    /\ last.op = "get_state"
    /\ phase = 4
    /\ state = CLOSED
    /\ error_count = 0
    /\ trip_time = None
    /\ ~DailyLossBreached

-----------------------------------------------------------------------------
(* _receive_messages on any inbound message: text that json.loads accepts   *)
(* or rejects, and a handler that returns a value to broadcast, returns      *)
(* nothing, or raises.                                                       *)

\* One registration of one source whose transport delivers any message.  The
\* receive loops read nothing of the broadcast worker, which stays the task
\* start() created until stop() cancels it: nothing is taken off the queue
\* here, and the worker's steps are in the Next relations of the delivery
\* and shutdown specifications.
NextReceive ==
    \/ Len(workers) = 0 /\ WsStart
    \/ WsStop
    \/ \E n \in Names, h \in Handlers : Len(conns) = 0 /\ AddSourceConnection(n, h)
    \/ \E l \in LoopIds : LoopStart(l)
    \/ \E l \in LoopIds : ConnectSucceeds(l)
    \/ \E l \in LoopIds : ConnectFails(l)
    \/ \E l \in LoopIds : SleepEnds(l)
    \/ \E l \in LoopIds, msg \in InboundMessages : MessageArrives(l, msg)
    \/ \E l \in LoopIds : HandlerReturns(l)
    \/ \E l \in LoopIds : TransportFails(l)
    \/ \E l \in LoopIds : ReceiveEnds(l)
    \/ \E l \in LoopIds : LoopCancelled(l)
    \/ StopCloseReturns
    \/ \E w \in WorkerIds : WorkerCancelled(w)

SpecReceive == Init /\ [][NextReceive]_vars

\* The message fails to parse, or its handler raises
Unprocessable(msg) == msg.payload = "not_json" \/ msg.handler = "raises"

\* C33: an inbound source message that fails to parse, or whose handler
\* raises, is skipped: the source stays Connected, the receive loop goes on
\* with the next message, no reconnect is triggered and nothing is enqueued
\* for that message.
C33_BadMessageIsSkipped ==
    [][\A l \in LoopIds :
            (\/ MessageArrives(l, Inbound("not_json", "not_called"))
             \/ /\ loops[l].pc = "handling"
                /\ Unprocessable(loops[l].message[1])
                /\ HandlerReturns(l))
                => /\ UNCHANGED <<_broadcast_queue, put_count>>
                   /\ UNCHANGED <<conns, _tasks, transports>>
                   /\ conns[loops[l].rconn[1]].status = CONNECTED
                        => conns'[loops[l].rconn[1]].status = CONNECTED
                   /\ loops'[l] = [loops[l] EXCEPT !.pc = "receiving",
                                                   !.message = None]
    ]_vars

\* After a message that was skipped for one of the two reasons, the same
\* receive loop took a good message and queued it.
C33_Witness ==
    /\ inbound.count = 2
    /\ inbound.latest = Some(Inbound("json", "value"))
    /\ put_count = 1
    /\ Len(_broadcast_queue) = 1
    /\ \E l \in LoopIds :
            /\ loops[l].pc = "receiving"
            /\ conns[loops[l].rconn[1]].status = CONNECTED

\* The latest message raised in its handler and the source is still
\* connected and receiving.
C33_WitnessHandlerRaises ==
    /\ inbound.latest = Some(Inbound("json", "raises"))
    /\ \E l \in LoopIds :
            /\ loops[l].pc = "receiving"
            /\ conns[loops[l].rconn[1]].status = CONNECTED

-----------------------------------------------------------------------------
(* Position tracking: fills of different sizes reported for one market.    *)

\* Contracts of a reported fill
FillQuantities == {1, max_position_per_market}

\* Successful results carrying the position after the fill
QuantityFills ==
    {TradeResult(TRUE, 0, Some(Position(q, 0))) : q \in FillQuantities}

NextFill ==
    \/ Tick
    \/ GetState
    \/ \E m \in Markets, s \in Sizes, l \in Losses : ValidateTrade(m, s, l)
    \/ \E res \in SuccessResults : RecordSuccess(res)
    \/ \E m \in Markets, res \in QuantityFills \cup {FailureResult} :
            UpdatePosition(m, res)
    \/ ManualReset
    \/ ManualTrip

SpecFill == Init /\ [][NextFill]_vars

\* C34: a Position for a market is created by the first successful trade
\* result reported for that market, is updated by every later successful
\* fill reported for the same market, and is never removed by any operation
\* of the breaker.  Updated is read in its weakest sense: a later fill whose
\* position differs from the stored one changes the stored one.
C34_PositionFollowsFills ==
    [][/\ \A m \in Markets, res \in QuantityFills :
            UpdatePosition(m, res)
                => /\ positions[m] = None => positions'[m] = res.position
                   /\ (positions[m] # None /\ positions[m] # res.position)
                        => positions'[m] # positions[m]
       /\ \A m \in Markets : positions[m] # None => positions'[m] # None
    ]_vars

\* The part of C34 the code keeps: the first fill creates the position and
\* no operation removes or replaces it.
C34_FirstFillStays ==
    [][/\ \A m \in Markets, res \in QuantityFills :
            UpdatePosition(m, res)
                => positions'[m] = (IF positions[m] = None THEN res.position
                                    ELSE positions[m])
       /\ \A m \in Markets : positions[m] # None => positions'[m] = positions[m]
    ]_vars

-----------------------------------------------------------------------------
(* What the engine reports as active.                                       *)

\* get_active_opportunities: the stored opportunities whose status is
\* "active"; to_broadcast_format lists the same ones.
get_active_opportunities(e) == {o \in e.opportunities : o.status = "active"}

\* The snapshot an opportunity was detected from is at least as old as the
\* detection itself.
SnapshotStale(o) == _is_data_stale(Eng, now, o.discovered_at)

\* C35: an opportunity expires by staleness: once the snapshot it was
\* detected from is older than the staleness threshold (or the opportunity
\* is explicitly closed), it is no longer reported as active by
\* get_active_opportunities or the broadcast snapshot.
C35_StaleOpportunityNotActive ==
    \A o \in get_active_opportunities(Eng) : ~SnapshotStale(o)

\* A scan found nothing, every cached quote being stale, while an opportunity
\* detected from one of them is still reported as active.
C35_StaleStillActive ==
    /\ since_scan = "unchanged"
    /\ emitted = <<>>
    /\ \E o \in get_active_opportunities(Eng) :
            /\ SnapshotStale(o)
            /\ polymarket_prices[o.polymarket_market_id] # None
            /\ _is_data_stale(Eng, now,
                   polymarket_prices[o.polymarket_market_id][1].updated_at)

-----------------------------------------------------------------------------
(* The figures of a VWAP result that do not depend on the target.          *)

\* vwap, slippage, levels used and total liquidity of a result
PrefixFigures(r) == <<r.vwap_cents, r.slippage_cents, r.levels_used, r.total_liquidity>>

\* C36: the VWAP walk does not interpolate: for a fixed book and
\* configuration, the reported vwap, slippage, levels_used and
\* total_liquidity are those of the selected prefix and are identical for
\* every positive target size, also for targets that fit entirely in the
\* first level; only optimal_size and execution cost depend on the target.
C36_FiguresOfSelectedPrefix ==
    vwap_result.op # "none" =>
        LET r == vwap_result.result[1]
        IN  /\ \A t \in Targets : PrefixFigures(Resized(t)) = PrefixFigures(r)
            /\ ToleratedDepth > 0 =>
                LET k == Deepest(SideRead, SignRead)
                    size == PrefixSize(SideRead, k)
                    cost == PrefixCost(SideRead, k)
                IN  /\ r.levels_used = k
                    /\ r.total_liquidity = size
                    /\ r.vwap_cents = round_vwap(cost, size)
                    /\ r.slippage_cents =
                            round_slippage(cost, size, SideRead[1].price,
                                           SignRead)
                    /\ r.execution_cost_usd[1] * size * 100
                            = r.optimal_size * cost * r.execution_cost_usd[2]

\* A buy whose target fits entirely in the first ask while the selected
\* prefix has two levels: the reported vwap is the two-level average, above
\* the price of the first level.
C36_Witness ==
    /\ vwap_result.op = "buy"
    /\ Len(orderbook.asks) >= 2
    /\ target_size_dollars < PrefixSize(orderbook.asks, 1)
    /\ vwap_result.result[1].optimal_size = target_size_dollars
    /\ vwap_result.result[1].levels_used = 2
    /\ vwap_result.result[1].vwap_cents > 10 * orderbook.asks[1].price
    /\ \E t \in Targets :
            /\ t > target_size_dollars
            /\ Resized(t).optimal_size > target_size_dollars

-----------------------------------------------------------------------------
(* The trip time and the state of the breaker.                             *)

\* C37: in every reachable state of the CircuitBreaker, trip_time is unset if
\* and only if the state is Closed: an Open or HalfOpen breaker always
\* carries the time of its last trip, so an Open breaker can never be stuck
\* without a cooldown reference.
C37_TripTimeUnsetIffClosed ==
    /\ (trip_time = None) <=> (state = CLOSED)
    /\ state \in {OPEN, HALF_OPEN} => Truthy(trip_time) /\ trip_time[1] <= now

\* A breaker that was tripped, read as HALF_OPEN after the cooldown, still
\* carrying the time of the trip.
C37_Witness ==
    /\ state = HALF_OPEN
    /\ last.op \in {"get_state", "can_trade"}
    /\ trip_time # None
    /\ now - trip_time[1] > breaker_config.error_cooldown_ms

\* A breaker closed again by a read, its trip time cleared.
C37_WitnessClosedAgain ==
    /\ state = CLOSED
    /\ phase = 4
    /\ trip_time = None
    /\ daily_metrics.total_trades > 0

\* C38: a single get_state() call never takes the breaker from Open straight
\* to Closed: whatever the counters and P&L, the first read after the
\* cooldown elapses reports HalfOpen, and Closed can only be reported by a
\* later read.
C38_NoOpenToClosedInOneRead ==
    [][/\ (state = OPEN /\ GetState)
            => /\ last'.reason # CLOSED
               /\ state' = IF CooldownElapsed THEN HALF_OPEN ELSE OPEN
       /\ (state = OPEN /\ state' = CLOSED) => last'.op = "manual_reset"
    ]_vars

\* The first read after the cooldown of a breaker tripped by hand, with no
\* failure recorded and the daily P&L above the limit: it reports HALF_OPEN.
C38_Witness ==
    /\ last.op = "get_state"
    /\ last.reason = HALF_OPEN
    /\ state = HALF_OPEN
    /\ daily_metrics.consecutive_errors = 0
    /\ daily_metrics.failed_trades = 0
    /\ daily_metrics.total_pnl_usd > -breaker_config.max_daily_loss_usd

\* C39: a manual_trip is not permanent: once the cooldown has elapsed after
\* it, the next get_state() reports HalfOpen and can_trade() returns true
\* without any operator reset.  Until then both report the breaker open.
C39_ManualTripCoolsDown ==
    [][/\ ManualTrip => (state' = OPEN /\ trip_time' = Some(now))
       /\ (last.op = "manual_trip" /\ GetState)
            => /\ state' = IF CooldownElapsed THEN HALF_OPEN ELSE OPEN
               /\ last'.reason = state'
       /\ (last.op = "manual_trip" /\ CanTrade)
            => /\ state' = IF CooldownElapsed THEN HALF_OPEN ELSE OPEN
               /\ last'.ok = CooldownElapsed
    ]_vars

\* The breaker was tripped by hand, with failures on record, and only the
\* clock has moved since, past the cooldown: the next read is the claim's.
C39_Witness ==
    /\ last.op = "manual_trip"
    /\ state = OPEN
    /\ trip_time # None
    /\ now - trip_time[1] > breaker_config.error_cooldown_ms
    /\ error_count > 0

-----------------------------------------------------------------------------
(* A fan-out during which sinks join or leave.                              *)

\* The sinks registered from the start of worker w's fan-out up to now
StayedRegistered(w) == workers[w].stayed \cap client_connections

\* Sink x was handed the message m: its send_json was called with it, whether
\* it accepted it or raised
Handed(w, x) ==
    \/ x \in workers[w].visited
    \/ x = workers[w].cur[1]

\* C40: a message taken from the broadcast queue is sent to every sink that
\* is registered during the whole fan-out, even when add_client or
\* remove_client runs while the fan-out is suspended in a send: such an
\* interleaving never makes the worker abandon the message for the remaining
\* sinks.
C40_FanOutReachesEverySink ==
    [][\A w \in WorkerTasks, ok \in BOOLEAN :
            (FanOutEnds(w) /\ SendReturns(w, ok))
                => \A x \in StayedRegistered(w) : Handed(w, x)
    ]_vars

\* A fan-out was cut short: the worker is back at its queue, one sink has the
\* message and the other, registered all along, does not.
C40_MessageAbandoned ==
    /\ \E w \in WorkerIds : workers[w].pc = "waiting"
    /\ client_connections = {"c2"}
    /\ delivered["c1"] = <<1>>
    /\ delivered["c2"] = <<>>
    /\ _broadcast_queue = <<>>
    /\ put_count = 1

====
